---- MODULE Spec2Model ----
(***************************************************************************)
(* sproket v0.2.14: replica-aware resolution (getBySearch) and the bounded *)
(* download pool (getData), over a Solr-style index (SearchURLs, Facet)    *)
(* and a shared output directory.                                          *)
(***************************************************************************)
EXTENDS Integers, Sequences, FiniteSets, TLC

\* ---------------------------------------------------------------- bounds
MaxIds == 2        \* distinct instance_ids in an enumerated index
MaxNodes == 2      \* distinct data nodes
MaxDocs == 3       \* records in an enumerated index
MaxParallel == 2   \* largest value of the -p option
NumContents == 2   \* distinct non-empty byte sequences a server may send
MaxJobs == 2       \* records in an index whose files are really downloaded
PageTotal == 130   \* matches in the index of a directly paged search
PageSize == 50     \* page size of a directly paged search
MaxFacetLen == 4   \* elements in the value/count list of a facet answer

\* ------------------------------------------------------ program constants
limit == 250
warnCount == 100

Ids == 1..MaxIds
NodeNames == <<"nodeA", "nodeB", "nodeC", "nodeD">>
Nodes == {NodeNames[i] : i \in 1..MaxNodes}
Contents == 0..NumContents   \* 0 is the empty byte sequence

\* ---------------------------------------------------------------- hashing
\* hash.Sum over a byte sequence, printed with %x: lower-case hex of the
\* digest.  Two algorithms give different digests of the same bytes, and one
\* algorithm gives different digests of different bytes.
HexSum(alg, bytes) == [alg |-> alg, of |-> bytes, upper |-> FALSE]

\* The same digest as the index may publish it in upper-case hex.
UpperHex(alg, bytes) == [alg |-> alg, of |-> bytes, upper |-> TRUE]

\* ---------------------------------------------------------------- records
\* url entries of an index record are "address|mime|service".
UrlHTTP == [addr |-> "http", service |-> "HTTPServer"]
UrlGridFTP == [addr |-> "gsiftp", service |-> "GridFTP"]

NoSum == [alg |-> "", of |-> 0, upper |-> FALSE]   \* the empty string ""

\* A record of the index.  replica is the record's replica field, which the
\* query filters on; the other fields are the ones SearchURLs projects.
Rec(id, node, replica, sum, sumtype, urls) ==
    [InstanceID |-> id, DataNode |-> node, replica |-> replica,
     Sum |-> sum, SumType |-> sumtype, URLs |-> urls, HTTPURL |-> ""]

GoodSum == <<HexSum("SHA256", 1)>>
GoodType == <<"SHA256">>
GoodUrls == <<UrlGridFTP, UrlHTTP>>

\* A record as the archive normally publishes it.
PlainRec(id, node, replica) == Rec(id, node, replica, GoodSum, GoodType, GoodUrls)

\* ------------------------------------------------------------ Doc methods
GetSum(d) == IF Len(d.Sum) # 1 THEN NoSum ELSE d.Sum[1]

\* d.SumType[0] is read whenever len(d.Sum) == 1: an index-out-of-range
\* panic when the record carries one checksum and no checksum_type.
GetSumTypePanics(d) == Len(d.Sum) = 1 /\ Len(d.SumType) = 0

GetSumType(d) == IF Len(d.Sum) # 1 THEN "" ELSE d.SumType[1]

\* ------------------------------------------------------------- verification
getHasher(remoteSum, remoteSumType) ==
    IF remoteSumType = "" \/ remoteSum = NoSum
    THEN [err |-> TRUE, alg |-> ""]
    ELSE IF remoteSumType = "MD5" THEN [err |-> FALSE, alg |-> "MD5"]
    ELSE IF remoteSumType = "SHA256" THEN [err |-> FALSE, alg |-> "SHA256"]
    ELSE [err |-> TRUE, alg |-> ""]

\* Mutant of check: the test of the file already present never succeeds.
checkNever(bytes, openFails, remoteSum, remoteSumType) == FALSE

\* check(dest, ...) on a file that exists with the given bytes; openFails is
\* the outcome of os.Open.  TRUE means a nil error.
check(bytes, openFails, remoteSum, remoteSumType) ==
    LET h == getHasher(remoteSum, remoteSumType) IN
    IF h.err THEN FALSE
    ELSE IF openFails THEN FALSE
    ELSE HexSum(h.alg, bytes) = remoteSum

\* ------------------------------------------------------------ query builder
Lit(s) == [wild |-> FALSE, alts |-> {s}]
Star == [wild |-> TRUE, alts |-> {}]
\* Mutant of JoinOr: the data_node restriction is lost.
JoinOrUnrestricted(S) == [wild |-> TRUE, alts |-> {}]

\* strings.Join(options, " OR "): the index reads it as a disjunction.
JoinOr(S) == [wild |-> FALSE, alts |-> S]

\* A field key with a leading dash negates its clause; the key without the
\* dash is the field the index looks at.
Negated(k) == k = "-project"
Positive(k) == IF k = "-project" THEN "project" ELSE k

\* Mutant of buildQ: no special case for the empty mapping, the query is the
\* empty string.
buildQNoDefault(flds) == {<<k, flds[k]>> : k \in DOMAIN flds}

\* Mutant of buildQ: the leading dash of a field key is dropped.
buildQDropDash(flds) ==
    IF DOMAIN flds = {} THEN {<<"*", Star>>}
    ELSE {<<Positive(k), flds[k]>> : k \in DOMAIN flds}

\* One clause key:(value) per field; "*:*" when there is no field.
buildQ(flds) ==
    IF DOMAIN flds = {} THEN {<<"*", Star>>}
    ELSE {<<k, flds[k]>> : k \in DOMAIN flds}

\* ------------------------------------------------------------------ index
\* The value a record holds for a queried field.
RecField(r, k) ==
    CASE k = "replica" -> r.replica
      [] k = "data_node" -> r.DataNode
      [] k = "retracted" -> "false"
      [] k = "latest" -> "true"
      [] OTHER -> "CMIP6"

\* The record holds one of the values of a clause key:(value).
Holds(r, k, v) == v.wild \/ RecField(r, k) \in v.alts

\* The clauses are ANDed; -key:(value) asks that key:(value) not hold.
Matches(r, q) ==
    \A c \in q :
        \/ c[1] = "*"
        \/ IF Negated(c[1]) THEN ~Holds(r, Positive(c[1]), c[2])
                             ELSE Holds(r, c[1], c[2])

Filter(idx, q) == SelectSeq(idx, LAMBDA r : Matches(r, q))

Min(a, b) == IF a < b THEN a ELSE b

\* The index's answer to a search request: numFound and the window of the
\* matching records starting at offset.
IndexSearch(idx, q, offset, lim) ==
    LET m == Filter(idx, q) IN
    [N |-> Len(m),
     Docs |-> SubSeq(m, offset + 1, Min(offset + lim, Len(m)))]

\* ------------------------------------------------------------ index client
\* The last url whose text contains "HTTPServer", cut at the first "|".
RECURSIVE HTTPURLOf(_, _)
HTTPURLOf(urls, acc) ==
    IF urls = <<>> THEN acc
    ELSE HTTPURLOf(Tail(urls),
                   IF Head(urls).service = "HTTPServer" THEN Head(urls).addr ELSE acc)

WithHTTPURL(d) == [d EXCEPT !.HTTPURL = HTTPURLOf(d.URLs, "")]

\* Mutant of SearchURLs: the offset is left out of remaining.
SearchURLsNoSkip(idx, flds, skip, lim, ok) ==
    IF ~ok THEN [docs |-> <<>>, remaining |-> 0]
    ELSE LET res == IndexSearch(idx, buildQ(flds), skip, lim)
             remaining == res.N - Len(res.Docs)
         IN [docs |-> [i \in 1..Len(res.Docs) |-> WithHTTPURL(res.Docs[i])],
             remaining |-> IF remaining < 0 THEN 0 ELSE remaining]

\* SearchURLs(skip, limit) -> (docs, remaining); ok is the outcome of
\* performSearch (transport and status).
SearchURLs(idx, flds, skip, lim, ok) ==
    IF ~ok THEN [docs |-> <<>>, remaining |-> 0]
    ELSE LET res == IndexSearch(idx, buildQ(flds), skip, lim)
             remaining == res.N - (Len(res.Docs) + skip)
         IN [docs |-> [i \in 1..Len(res.Docs) |-> WithHTTPURL(res.Docs[i])],
             remaining |-> IF remaining < 0 THEN 0 ELSE remaining]

\* The flat value/count list of facet_counts.facet_fields.data_node.
FacetStr(s) == [str |-> TRUE, s |-> s, n |-> 0]
FacetNum(n) == [str |-> FALSE, s |-> "", n |-> n]

Count(m, node) == Cardinality({i \in 1..Len(m) : m[i].DataNode = node})

RECURSIVE FacetList(_, _)
FacetList(m, nodes) ==
    IF nodes = {} THEN <<>>
    ELSE LET nd == CHOOSE x \in nodes : TRUE IN
         <<FacetStr(nd), FacetNum(Count(m, nd))>> \o FacetList(m, nodes \ {nd})

IndexFacet(idx, q) ==
    LET m == Filter(idx, q) IN
    FacetList(m, {m[i].DataNode : i \in 1..Len(m)})

\* The pairing loop of Facet: a string is remembered, a number is stored
\* under the remembered string.  The result maps value -> count.
RECURSIVE FacetPairs(_, _, _)
FacetPairs(raw, prev, acc) ==
    IF raw = <<>> THEN acc
    ELSE IF Head(raw).str THEN FacetPairs(Tail(raw), Head(raw).s, acc)
    ELSE FacetPairs(Tail(raw), prev,
                    [k \in DOMAIN acc \cup {prev} |->
                        IF k = prev THEN Head(raw).n ELSE acc[k]])

EmptyMap == [k \in {} |-> 0]

\* What Facet makes of the answer: a failed request gives the nil map, a
\* body gives the pairs of its value/count list.
FacetOf(raw, ok) == IF ~ok THEN EmptyMap ELSE FacetPairs(raw, "", EmptyMap)

\* Facet("data_node") -> map.
Facet(idx, flds, ok) == FacetOf(IndexFacet(idx, buildQ(flds)), ok)

\* ------------------------------------------------------------------ state
VARIABLES
    conf,              \* the config file: the caller's fields and data_node_priority
    args,              \* config: parallel, confirm, count, noVerify, noDownload, urlsOnly,
                       \* unsafe
    search,            \* sproket.Search: Fields, DataNodePriority
    softDataNode,      \* args.softDataNode
    index,             \* the index content: the enumerated records ...
    bulk,              \* ... followed by this many plain originals
    env,               \* which faults the environment may inject in this run
    pc,                \* position of getBySearch
    n,                 \* count reported by the count-only query
    warned,            \* the "too many files" message was printed
    cur, page, pidx, remaining,   \* paging loop and the page being sent
    dataNodeMatches,
    allDocs,           \* instance_id -> (data_node -> Doc)
    toSelect,          \* keys of allDocs the selection loop has not visited
    jobsSubmitted, prefJobsSubmitted,
    started,           \* the worker goroutines were started
    closed,            \* docChan is closed
    wpc, wdoc,         \* per worker: position in getData, the Doc received
    wfd,               \* per worker: the inode fileWriter refers to
    wbytes,            \* per worker: the bytes streamed through the hasher
    wjob,              \* per worker: what happened in the current job
    partF, finalF,     \* output directory: instance_id -> inode of <id>.part, <id>
    data,              \* inode -> bytes; an inode is <<instance_id, generation>>
    crashed,           \* the process died of a panic
    sent,              \* Doc -> how many times it was sent on docChan
    gets,              \* instance_id -> how many file GETs were issued for it
    origDocs, replDocs,\* Docs the originals pass and the replica pass returned
    queries,           \* every index request issued
    wroteFinal,        \* bytes were written into a file linked at a final path
    facetRaw,          \* the value/count list of the last facet answer
    facetMap,          \* the map the last Facet call returned
    allTrueLatestDocs  \* v0.1.1 only: instance_id -> (data_node -> Doc) of the
                       \* originals; allDocs is its allDesiredDocs

vars == <<conf, args, search, softDataNode, index, bulk, env, pc, n, warned, cur, page,
          pidx, remaining, dataNodeMatches, allDocs, toSelect, jobsSubmitted,
          prefJobsSubmitted, started, closed, wpc, wdoc, wfd, wbytes, wjob, partF,
          finalF, data, crashed, sent, gets, origDocs, replDocs, queries, wroteFinal,
          facetRaw, facetMap, allTrueLatestDocs>>

confVars == <<conf, args, index, bulk, env>>
resolverVars == <<search, softDataNode, pc, n, warned, cur, page, pidx, remaining,
                  dataNodeMatches, allDocs, toSelect, jobsSubmitted,
                  prefJobsSubmitted, started, closed, origDocs, replDocs, queries>>
fsVars == <<partF, finalF, data, wroteFinal>>
facetVars == <<facetRaw, facetMap>>

Workers == 1..MaxParallel

\* The whole index: the enumerated records, then `bulk` plain originals with
\* fresh instance_ids on the first node.
Index ==
    index \o [i \in 1..bulk |-> PlainRec(MaxIds + i, NodeNames[1], "false")]

\* Outcomes of a request to the index: TRUE is a 200 response.
IdxOutcomes == IF env.idxFaults THEN BOOLEAN ELSE {TRUE}
\* Outcomes of a local file operation (open, create, rename): TRUE is success.
IoOutcomes == IF env.ioFaults THEN BOOLEAN ELSE {TRUE}

NoIno == <<0, 0>>
NoDoc == Rec(0, "", "", <<>>, <<>>, <<>>)
NoJob == [finalSeen |-> FALSE, finalBytes |-> 0, openFailed |-> FALSE,
          skipped |-> FALSE, created |-> FALSE, got |-> FALSE, getOk |-> FALSE,
          renamed |-> FALSE, renameErr |-> FALSE]

BagAdd(b, x) == [y \in DOMAIN b \cup {x} |->
                    IF y \in DOMAIN b THEN b[y] + (IF y = x THEN 1 ELSE 0) ELSE 1]
BagCount(b, x) == IF x \in DOMAIN b THEN b[x] ELSE 0

Query(kind, flds, skip, lim, ok) ==
    [kind |-> kind, q |-> buildQ(flds), skip |-> skip, limit |-> lim, ok |-> ok]

\* --------------------------------------------------------------- resolver
Put(m, k, v) == [x \in DOMAIN m \cup {k} |-> IF x = k THEN v ELSE m[x]]

\* Originals loop body with softDataNode set: a fresh one-entry mapping per Doc.
RECURSIVE InsertOriginals(_, _)
InsertOriginals(docs, m) ==
    IF docs = <<>> THEN m
    ELSE InsertOriginals(Tail(docs),
             Put(m, Head(docs).InstanceID,
                 Put(EmptyMap, Head(docs).DataNode, Head(docs))))

\* Mutant of AddReplicas: a replica of an unknown instance_id opens a mapping
\* of its own.
RECURSIVE AddReplicasAny(_, _)
AddReplicasAny(docs, m) ==
    IF docs = <<>> THEN m
    ELSE AddReplicasAny(Tail(docs),
             Put(m, Head(docs).InstanceID,
                 Put(IF Head(docs).InstanceID \in DOMAIN m
                     THEN m[Head(docs).InstanceID] ELSE EmptyMap,
                     Head(docs).DataNode, Head(docs))))

\* Mutant of AddReplicas: a replica is entered the way an original is.
AddReplicasAsOriginals(docs, m) == InsertOriginals(docs, m)

\* Replica loop body: a Doc is added only under an instance_id already present.
RECURSIVE AddReplicas(_, _)
AddReplicas(docs, m) ==
    IF docs = <<>> THEN m
    ELSE AddReplicas(Tail(docs),
             IF Head(docs).InstanceID \in DOMAIN m
             THEN Put(m, Head(docs).InstanceID,
                      Put(m[Head(docs).InstanceID], Head(docs).DataNode, Head(docs)))
             ELSE m)

\* Mutant of FindPreferred: the walk does not stop at the first match, the
\* last listed node present wins.
RECURSIVE FindPreferredLast(_, _)
FindPreferredLast(prio, dataNodeMap) ==
    IF prio = <<>> THEN [found |-> FALSE, doc |-> NoDoc]
    ELSE LET rest == FindPreferredLast(Tail(prio), dataNodeMap) IN
         IF rest.found THEN rest
         ELSE IF Head(prio) \in DOMAIN dataNodeMap
              THEN [found |-> TRUE, doc |-> dataNodeMap[Head(prio)]]
              ELSE rest

\* The walk over DataNodePriority: the first listed node that is a key of the
\* mapping, if any.
RECURSIVE FindPreferred(_, _)
FindPreferred(prio, dataNodeMap) ==
    IF prio = <<>> THEN [found |-> FALSE, doc |-> NoDoc]
    ELSE IF Head(prio) \in DOMAIN dataNodeMap
         THEN [found |-> TRUE, doc |-> dataNodeMap[Head(prio)]]
         ELSE FindPreferred(Tail(prio), dataNodeMap)

SeqToSet(sq) == {sq[i] : i \in 1..Len(sq)}

\* The large-download check: no -y and more than warnCount files.
\* Mutant of TooMany: no count is too large.
TooManyNever(found) == FALSE

\* Mutant of TooMany: the threshold itself already needs a confirmation.
TooManyInclusive(found) == ~args.confirm /\ found >= warnCount

TooMany(found) == ~args.confirm /\ found > warnCount

\* Mutant of CountQuery: -count does not stop the run.
CountQueryIgnoreCount ==
    /\ pc = "start" /\ ~crashed
    /\ \E ok \in IdxOutcomes :
         LET flds == [search.Fields EXCEPT !["replica"] = Lit("false")]
             r == SearchURLs(Index, flds, 0, 0, ok)
         IN /\ search' = [search EXCEPT !.Fields = flds]
            /\ queries' = Append(queries, Query("search", flds, 0, 0, ok))
            /\ n' = r.remaining
            /\ IF r.remaining = 0
               THEN pc' = "done" /\ warned' = warned
               ELSE IF TooMany(r.remaining)
               THEN pc' = "done" /\ warned' = TRUE
               ELSE /\ pc' = IF softDataNode THEN "facet" ELSE "spawn"
                    /\ warned' = warned
    /\ UNCHANGED <<confVars, allTrueLatestDocs, facetVars, softDataNode, cur, page, pidx, remaining,
                   dataNodeMatches, allDocs, toSelect, jobsSubmitted,
                   prefJobsSubmitted, started, closed, wpc, wdoc, wfd, wbytes, wjob,
                   fsVars, crashed, sent, gets, origDocs, replDocs>>

\* Mutant of CountQuery: a count of zero does not stop the run.
CountQueryIgnoreZero ==
    /\ pc = "start" /\ ~crashed
    /\ \E ok \in IdxOutcomes :
         LET flds == [search.Fields EXCEPT !["replica"] = Lit("false")]
             r == SearchURLs(Index, flds, 0, 0, ok)
         IN /\ search' = [search EXCEPT !.Fields = flds]
            /\ queries' = Append(queries, Query("search", flds, 0, 0, ok))
            /\ n' = r.remaining
            /\ IF args.count
               THEN pc' = "done" /\ warned' = warned
               ELSE IF TooMany(r.remaining)
               THEN pc' = "done" /\ warned' = TRUE
               ELSE /\ pc' = IF softDataNode THEN "facet" ELSE "spawn"
                    /\ warned' = warned
    /\ UNCHANGED <<confVars, allTrueLatestDocs, facetVars, softDataNode, cur, page, pidx, remaining,
                   dataNodeMatches, allDocs, toSelect, jobsSubmitted,
                   prefJobsSubmitted, started, closed, wpc, wdoc, wfd, wbytes, wjob,
                   fsVars, crashed, sent, gets, origDocs, replDocs>>

\* Count original files; stop on -count, on zero, and on an unconfirmed
\* count above warnCount.
CountQuery ==
    /\ pc = "start" /\ ~crashed
    /\ \E ok \in IdxOutcomes :
         LET flds == [search.Fields EXCEPT !["replica"] = Lit("false")]
             r == SearchURLs(Index, flds, 0, 0, ok)
         IN /\ search' = [search EXCEPT !.Fields = flds]
            /\ queries' = Append(queries, Query("search", flds, 0, 0, ok))
            /\ n' = r.remaining
            /\ IF args.count \/ r.remaining = 0
               THEN pc' = "done" /\ warned' = warned
               ELSE IF TooMany(r.remaining)
               THEN pc' = "done" /\ warned' = TRUE
               ELSE /\ pc' = IF softDataNode THEN "facet" ELSE "spawn"
                    /\ warned' = warned
    /\ UNCHANGED <<confVars, allTrueLatestDocs, facetVars, softDataNode, cur, page, pidx, remaining,
                   dataNodeMatches, allDocs, toSelect, jobsSubmitted,
                   prefJobsSubmitted, started, closed, wpc, wdoc, wfd, wbytes, wjob,
                   fsVars, crashed, sent, gets, origDocs, replDocs>>

\* Mutant of FacetQuery: the preference stays active whatever the facet says.
FacetQueryKeepActive ==
    /\ pc = "facet" /\ ~crashed
    /\ \E ok \in IdxOutcomes :
         LET flds == [search.Fields EXCEPT !["replica"] = Lit("true")]
             dataNodes == Facet(Index, flds, ok)
             matches == {dn \in DOMAIN dataNodes :
                           dn \in SeqToSet(search.DataNodePriority)}
         IN /\ queries' = Append(queries, Query("facet", flds, 0, 0, ok))
            /\ facetRaw' = (IF ok THEN IndexFacet(Index, buildQ(flds)) ELSE <<>>)
            /\ facetMap' = dataNodes
            /\ dataNodeMatches' = matches
            /\ softDataNode' = softDataNode
            /\ search' = [search EXCEPT !.Fields["replica"] = Lit("false")]
    /\ pc' = "spawn"
    /\ UNCHANGED <<confVars, allTrueLatestDocs, n, warned, cur, page, pidx, remaining, allDocs,
                   toSelect, jobsSubmitted, prefJobsSubmitted, started, closed, wpc,
                   wdoc, wfd, wbytes, wjob, fsVars, crashed, sent, gets, origDocs,
                   replDocs>>

\* Mutant of FacetQuery: every node of the facet counts as a match.
FacetQueryNoIntersect ==
    /\ pc = "facet" /\ ~crashed
    /\ \E ok \in IdxOutcomes :
         LET flds == [search.Fields EXCEPT !["replica"] = Lit("true")]
             dataNodes == Facet(Index, flds, ok)
             matches == IF search.DataNodePriority = <<>> THEN {}
                        ELSE DOMAIN dataNodes
         IN /\ queries' = Append(queries, Query("facet", flds, 0, 0, ok))
            /\ facetRaw' = (IF ok THEN IndexFacet(Index, buildQ(flds)) ELSE <<>>)
            /\ facetMap' = dataNodes
            /\ dataNodeMatches' = matches
            /\ softDataNode' = (matches # {})
            /\ search' = [search EXCEPT !.Fields["replica"] = Lit("false")]
    /\ pc' = "spawn"
    /\ UNCHANGED <<confVars, allTrueLatestDocs, n, warned, cur, page, pidx, remaining, allDocs,
                   toSelect, jobsSubmitted, prefJobsSubmitted, started, closed, wpc,
                   wdoc, wfd, wbytes, wjob, fsVars, crashed, sent, gets, origDocs,
                   replDocs>>

\* Check whether the priority list matters: facet the replicas by data_node.
FacetQuery ==
    /\ pc = "facet" /\ ~crashed
    /\ \E ok \in IdxOutcomes :
         LET flds == [search.Fields EXCEPT !["replica"] = Lit("true")]
             dataNodes == Facet(Index, flds, ok)
             matches == {dn \in DOMAIN dataNodes :
                           dn \in SeqToSet(search.DataNodePriority)}
         IN /\ queries' = Append(queries, Query("facet", flds, 0, 0, ok))
            /\ facetRaw' = (IF ok THEN IndexFacet(Index, buildQ(flds)) ELSE <<>>)
            /\ facetMap' = dataNodes
            /\ dataNodeMatches' = matches
            /\ softDataNode' = (matches # {})
            /\ search' = [search EXCEPT !.Fields["replica"] = Lit("false")]
    /\ pc' = "spawn"
    /\ UNCHANGED <<confVars, allTrueLatestDocs, n, warned, cur, page, pidx, remaining, allDocs,
                   toSelect, jobsSubmitted, prefJobsSubmitted, started, closed, wpc,
                   wdoc, wfd, wbytes, wjob, fsVars, crashed, sent, gets, origDocs,
                   replDocs>>

\* Mutant of Spawn: a goroutine is started for every worker slot, whatever
\* -p says.
SpawnAll ==
    /\ pc = "spawn" /\ ~crashed
    /\ wpc' = [w \in Workers |-> "recv"]
    /\ started' = TRUE
    /\ cur' = 0
    /\ pc' = "orig_query"
    /\ UNCHANGED <<confVars, allTrueLatestDocs, facetVars, search, softDataNode, n, warned, page, pidx, remaining,
                   dataNodeMatches, allDocs, toSelect, jobsSubmitted,
                   prefJobsSubmitted, closed, wdoc, wfd, wbytes, wjob, fsVars,
                   crashed, sent, gets, origDocs, replDocs, queries>>

\* Mutant of Spawn: one worker is started whatever args.parallel says.
SpawnAtLeastOne ==
    /\ pc = "spawn" /\ ~crashed
    /\ wpc' = [w \in Workers |-> IF w <= args.parallel \/ w = 1 THEN "recv" ELSE "off"]
    /\ started' = TRUE
    /\ cur' = 0
    /\ pc' = "orig_query"
    /\ UNCHANGED <<confVars, allTrueLatestDocs, facetVars, search, softDataNode, n, warned, page, pidx, remaining,
                   dataNodeMatches, allDocs, toSelect, jobsSubmitted,
                   prefJobsSubmitted, closed, wdoc, wfd, wbytes, wjob, fsVars,
                   crashed, sent, gets, origDocs, replDocs, queries>>

\* make(chan Doc) and one goroutine per id < args.parallel.
Spawn ==
    /\ pc = "spawn" /\ ~crashed
    /\ wpc' = [w \in Workers |-> IF w <= args.parallel THEN "recv" ELSE "off"]
    /\ started' = TRUE
    /\ cur' = 0
    /\ pc' = "orig_query"
    /\ UNCHANGED <<confVars, allTrueLatestDocs, facetVars, search, softDataNode, n, warned, page, pidx, remaining,
                   dataNodeMatches, allDocs, toSelect, jobsSubmitted,
                   prefJobsSubmitted, closed, wdoc, wfd, wbytes, wjob, fsVars,
                   crashed, sent, gets, origDocs, replDocs, queries>>

\* Mutant of AfterOrigPage: the next page is asked at the same offset.
AfterOrigPageStay(rem) ==
    IF rem # 0
    THEN /\ cur' = cur
         /\ pc' = "orig_query"
         /\ search' = search
    ELSE IF softDataNode
    THEN /\ cur' = 0
         /\ pc' = "repl_query"
         /\ search' = [search EXCEPT !.Fields["data_node"] = JoinOr(dataNodeMatches),
                                     !.Fields["replica"] = Lit("true")]
    ELSE /\ cur' = cur
         /\ pc' = "close"
         /\ search' = search

\* Mutant of AfterOrigPage: the cursor advances one past the page size.
AfterOrigPageSkip(rem) ==
    IF rem # 0
    THEN /\ cur' = cur + limit + 1
         /\ pc' = "orig_query"
         /\ search' = search
    ELSE IF softDataNode
    THEN /\ cur' = 0
         /\ pc' = "repl_query"
         /\ search' = [search EXCEPT !.Fields["data_node"] = JoinOr(dataNodeMatches),
                                     !.Fields["replica"] = Lit("true")]
    ELSE /\ cur' = cur
         /\ pc' = "close"
         /\ search' = search

\* Mutant of AfterOrigPage: the replica pass keeps replica=false.
AfterOrigPageKeepReplica(rem) ==
    IF rem # 0
    THEN /\ cur' = cur + limit
         /\ pc' = "orig_query"
         /\ search' = search
    ELSE IF softDataNode
    THEN /\ cur' = 0
         /\ pc' = "repl_query"
         /\ search' = [search EXCEPT !.Fields["data_node"] = JoinOr(dataNodeMatches)]
    ELSE /\ cur' = cur
         /\ pc' = "close"
         /\ search' = search

\* What follows the originals loop body of one page: the next page, or, after
\* the last page, the replica pass (softDataNode) or close(docChan).
AfterOrigPage(rem) ==
    IF rem # 0
    THEN /\ cur' = cur + limit
         /\ pc' = "orig_query"
         /\ search' = search
    ELSE IF softDataNode
    THEN /\ cur' = 0
         /\ pc' = "repl_query"
         /\ search' = [search EXCEPT !.Fields["data_node"] = JoinOr(dataNodeMatches),
                                     !.Fields["replica"] = Lit("true")]
    ELSE /\ cur' = cur
         /\ pc' = "close"
         /\ search' = search

\* Mutant of OrigPage: the Docs of a page are sent whether or not the
\* preference is active.
OrigPageAlwaysSend ==
    /\ pc = "orig_query" /\ ~crashed
    /\ \E ok \in IdxOutcomes :
         LET r == SearchURLs(Index, search.Fields, cur, limit, ok) IN
         /\ queries' = Append(queries, Query("search", search.Fields, cur, limit, ok))
         /\ origDocs' = origDocs \cup SeqToSet(r.docs)
         /\ remaining' = r.remaining
         /\ IF FALSE
            THEN /\ allDocs' = InsertOriginals(r.docs, allDocs)
                 /\ page' = <<>> /\ pidx' = 1
                 /\ AfterOrigPage(r.remaining)
            ELSE IF r.docs = <<>>
            THEN /\ allDocs' = allDocs
                 /\ page' = <<>> /\ pidx' = 1
                 /\ AfterOrigPage(r.remaining)
            ELSE /\ allDocs' = allDocs
                 /\ page' = r.docs /\ pidx' = 1
                 /\ pc' = "orig_send"
                 /\ UNCHANGED <<cur, search>>
    /\ UNCHANGED <<confVars, allTrueLatestDocs, facetVars, softDataNode, n, warned, dataNodeMatches, toSelect,
                   jobsSubmitted, prefJobsSubmitted, started, closed, wpc, wdoc, wfd,
                   wbytes, wjob, fsVars, crashed, sent, gets, replDocs>>

\* One page of originals.  With softDataNode the Docs are recorded in allDocs;
\* otherwise they are sent one by one (OrigSend).
OrigPage ==
    /\ pc = "orig_query" /\ ~crashed
    /\ \E ok \in IdxOutcomes :
         LET r == SearchURLs(Index, search.Fields, cur, limit, ok) IN
         /\ queries' = Append(queries, Query("search", search.Fields, cur, limit, ok))
         /\ origDocs' = origDocs \cup SeqToSet(r.docs)
         /\ remaining' = r.remaining
         /\ IF softDataNode
            THEN /\ allDocs' = InsertOriginals(r.docs, allDocs)
                 /\ page' = <<>> /\ pidx' = 1
                 /\ AfterOrigPage(r.remaining)
            ELSE IF r.docs = <<>>
            THEN /\ allDocs' = allDocs
                 /\ page' = <<>> /\ pidx' = 1
                 /\ AfterOrigPage(r.remaining)
            ELSE /\ allDocs' = allDocs
                 /\ page' = r.docs /\ pidx' = 1
                 /\ pc' = "orig_send"
                 /\ UNCHANGED <<cur, search>>
    /\ UNCHANGED <<confVars, allTrueLatestDocs, facetVars, softDataNode, n, warned, dataNodeMatches, toSelect,
                   jobsSubmitted, prefJobsSubmitted, started, closed, wpc, wdoc, wfd,
                   wbytes, wjob, fsVars, crashed, sent, gets, replDocs>>

\* docChan <- doc completes when an idle worker receives it.
Handoff(w, doc) ==
    /\ wpc[w] = "recv"
    /\ wpc' = [wpc EXCEPT ![w] = "got"]
    /\ wdoc' = [wdoc EXCEPT ![w] = doc]
    /\ wjob' = [wjob EXCEPT ![w] = NoJob]
    /\ sent' = BagAdd(sent, doc)

OrigSend(w) ==
    /\ pc = "orig_send" /\ ~crashed
    /\ Handoff(w, page[pidx])
    /\ IF pidx < Len(page)
       THEN /\ pidx' = pidx + 1
            /\ UNCHANGED <<page, pc, cur, search>>
       ELSE /\ pidx' = 1 /\ page' = <<>>
            /\ AfterOrigPage(remaining)
    /\ UNCHANGED <<confVars, allTrueLatestDocs, facetVars, softDataNode, n, warned, remaining, dataNodeMatches,
                   allDocs, toSelect, jobsSubmitted, prefJobsSubmitted, started,
                   closed, wfd, wbytes, fsVars, crashed, gets, origDocs, replDocs,
                   queries>>

\* One page of replicas on the matching priority nodes.
ReplPage ==
    /\ pc = "repl_query" /\ ~crashed
    /\ \E ok \in IdxOutcomes :
         LET r == SearchURLs(Index, search.Fields, cur, limit, ok) IN
         /\ queries' = Append(queries, Query("search", search.Fields, cur, limit, ok))
         /\ replDocs' = replDocs \cup SeqToSet(r.docs)
         /\ remaining' = r.remaining
         /\ allDocs' = AddReplicas(r.docs, allDocs)
         /\ IF r.remaining # 0
            THEN /\ cur' = cur + limit
                 /\ pc' = "repl_query"
                 /\ toSelect' = toSelect
            ELSE /\ cur' = cur
                 /\ toSelect' = DOMAIN allDocs'
                 /\ pc' = IF DOMAIN allDocs' = {} THEN "close" ELSE "select"
    /\ jobsSubmitted' = 0 /\ prefJobsSubmitted' = 0
    /\ UNCHANGED <<confVars, allTrueLatestDocs, facetVars, search, softDataNode, n, warned, page, pidx,
                   dataNodeMatches, started, closed, wpc, wdoc, wfd, wbytes, wjob,
                   fsVars, crashed, sent, gets, origDocs>>

\* Mutant of Select: the fallback for a mapping without a listed node is
\* missing, the LogicalFile is visited and nothing is sent.
SelectNoFallback(w) ==
    /\ pc = "select" /\ ~crashed
    /\ \E id \in toSelect :
         LET dataNodeMap == allDocs[id]
             p == FindPreferred(search.DataNodePriority, dataNodeMap)
         IN /\ IF p.found
               THEN Handoff(w, p.doc)
               ELSE wpc[w] = "recv" /\ UNCHANGED <<wpc, wdoc, wjob, sent>>
            /\ jobsSubmitted' = jobsSubmitted + (IF p.found THEN 1 ELSE 0)
            /\ prefJobsSubmitted' = prefJobsSubmitted + (IF p.found THEN 1 ELSE 0)
            /\ toSelect' = toSelect \ {id}
            /\ pc' = IF toSelect' = {} THEN "close" ELSE "select"
    /\ UNCHANGED <<confVars, allTrueLatestDocs, facetVars, search, softDataNode, n, warned, cur, page, pidx,
                   remaining, dataNodeMatches, allDocs, started, closed, wfd, wbytes,
                   fsVars, crashed, gets, origDocs, replDocs, queries>>

\* One iteration of the selection loop: `range allDocs` visits the keys in any
\* order; the preferred Doc is sent, or else the first Doc `range dataNodeMap`
\* yields.
Select(w) ==
    /\ pc = "select" /\ ~crashed
    /\ \E id \in toSelect :
         LET dataNodeMap == allDocs[id]
             p == FindPreferred(search.DataNodePriority, dataNodeMap)
         IN /\ \E dn \in DOMAIN dataNodeMap :
                 Handoff(w, IF p.found THEN p.doc ELSE dataNodeMap[dn])
            /\ jobsSubmitted' = jobsSubmitted + 1
            /\ prefJobsSubmitted' = prefJobsSubmitted + (IF p.found THEN 1 ELSE 0)
            /\ toSelect' = toSelect \ {id}
            /\ pc' = IF toSelect' = {} THEN "close" ELSE "select"
    /\ UNCHANGED <<confVars, allTrueLatestDocs, facetVars, search, softDataNode, n, warned, cur, page, pidx,
                   remaining, dataNodeMatches, allDocs, started, closed, wfd, wbytes,
                   fsVars, crashed, gets, origDocs, replDocs, queries>>

Close ==
    /\ pc = "close" /\ ~crashed
    /\ closed' = TRUE
    /\ pc' = "wait"
    /\ UNCHANGED <<confVars, allTrueLatestDocs, facetVars, search, softDataNode, n, warned, cur, page, pidx,
                   remaining, dataNodeMatches, allDocs, toSelect, jobsSubmitted,
                   prefJobsSubmitted, started, wpc, wdoc, wfd, wbytes, wjob, fsVars,
                   crashed, sent, gets, origDocs, replDocs, queries>>

\* waiter.Wait(): returns when every started worker has run waiter.Done().
Wait ==
    /\ pc = "wait" /\ ~crashed
    /\ \A w \in Workers : wpc[w] \in {"off", "exit"}
    /\ pc' = "done"
    /\ UNCHANGED <<confVars, allTrueLatestDocs, facetVars, search, softDataNode, n, warned, cur, page, pidx,
                   remaining, dataNodeMatches, allDocs, toSelect, jobsSubmitted,
                   prefJobsSubmitted, started, closed, wpc, wdoc, wfd, wbytes, wjob,
                   fsVars, crashed, sent, gets, origDocs, replDocs, queries>>

\* ----------------------------------------------------------------- workers
Remove(m, k) == [x \in DOMAIN m \ {k} |-> m[x]]

\* A proper prefix of the byte sequence c, as a failed or short copy leaves it.
Prefix(c) == 0 - c

\* Everything a file may hold.
AllBytes == {c : c \in Contents} \cup {Prefix(c) : c \in Contents}

\* The inode os.Create(<id>.part) yields: the existing file truncated, or a
\* new file.
CreatedIno(id) ==
    IF id \in DOMAIN partF THEN partF[id]
    ELSE <<id, Cardinality({i \in DOMAIN data : i[1] = id}) + 1>>

\* The loop body ends (falls through or `continue`): the worker waits for the
\* next Doc and the locals of the iteration are dead.
NextDoc(w) ==
    /\ wpc' = [wpc EXCEPT ![w] = "recv"]
    /\ wdoc' = [wdoc EXCEPT ![w] = NoDoc]
    /\ wfd' = [wfd EXCEPT ![w] = NoIno]
    /\ wbytes' = [wbytes EXCEPT ![w] = 0]

\* Mutant of Downloading: -no.download is ignored.
DownloadingUnlessUrlsOnly == ~args.urlsOnly

\* The run downloads: neither -urls.only nor -no.download.
Downloading == ~args.urlsOnly /\ ~args.noDownload

\* Top of the loop body up to the download: report-only modes, the skip test
\* on the final path, os.Create of the partial path, getHasher.
WorkerStart(w) ==
    /\ wpc[w] = "got" /\ ~crashed
    /\ LET doc == wdoc[w]
           id == doc.InstanceID
       IN IF ~Downloading
          THEN /\ NextDoc(w)
               /\ UNCHANGED <<wjob, fsVars, crashed>>
          ELSE \E openOk \in IoOutcomes, createOk \in IoOutcomes :
               LET finalExists == id \in DOMAIN finalF
                   finalBytes == IF finalExists THEN data[finalF[id]] ELSE 0
                   job == [NoJob EXCEPT !.finalSeen = finalExists,
                                        !.finalBytes = finalBytes,
                                        !.openFailed = finalExists /\ ~openOk]
                   ino == CreatedIno(id)
               IN IF finalExists /\ GetSumTypePanics(doc)
                  THEN /\ crashed' = TRUE
                       /\ wjob' = [wjob EXCEPT ![w] = job]
                       /\ UNCHANGED <<wpc, wdoc, wfd, wbytes, fsVars>>
                  ELSE IF finalExists
                          /\ check(finalBytes, ~openOk, GetSum(doc), GetSumType(doc))
                  THEN /\ NextDoc(w)
                       /\ wjob' = [wjob EXCEPT ![w] = [job EXCEPT !.skipped = TRUE]]
                       /\ UNCHANGED <<fsVars, crashed>>
                  ELSE IF ~createOk
                  THEN /\ NextDoc(w)
                       /\ wjob' = [wjob EXCEPT ![w] = job]
                       /\ UNCHANGED <<fsVars, crashed>>
                  ELSE /\ partF' = Put(partF, id, ino)
                       /\ data' = Put(data, ino, 0)
                       /\ wjob' = [wjob EXCEPT ![w] = [job EXCEPT !.created = TRUE]]
                       /\ wfd' = [wfd EXCEPT ![w] = ino]
                       /\ wbytes' = [wbytes EXCEPT ![w] = 0]
                       /\ wdoc' = wdoc
                       /\ IF GetSumTypePanics(doc)
                          THEN crashed' = TRUE /\ wpc' = wpc
                          ELSE crashed' = crashed /\ wpc' = [wpc EXCEPT ![w] = "fetch"]
                       /\ UNCHANGED <<finalF, wroteFinal>>
    /\ UNCHANGED <<confVars, allTrueLatestDocs, facetVars, resolverVars, sent, gets>>

\* What Search.Get may do with a usable URL: "fail" is a transport error or a
\* status other than 200 (nothing written), "short" a copy error or a size
\* mismatch (a prefix written), "ok" a complete body.
GetOutcomes == IF env.ioFaults THEN {"fail", "short", "ok"} ELSE {"ok"}
\* The bodies a server may send for a file: 1 is the published content.
Bodies == IF env.ioFaults THEN 1..NumContents ELSE {1}

\* Mutant of WorkerFetch: a body of the wrong size is taken as received.
WorkerFetchAcceptShort(w) ==
    /\ wpc[w] = "fetch" /\ ~crashed
    /\ LET doc == wdoc[w]
           id == doc.InstanceID
           ino == wfd[w]
           h == getHasher(GetSum(doc), GetSumType(doc))
           hashing == ~h.err /\ ~args.noVerify
           shared == \E v \in Workers : v # w /\ wpc[v] = "fetch" /\ wfd[v] = ino
           linked == \E i \in DOMAIN finalF : finalF[i] = ino
       IN IF doc.HTTPURL = ""
          THEN /\ NextDoc(w)
               /\ UNCHANGED <<wjob, fsVars, gets>>
          ELSE \E out \in GetOutcomes, body \in Bodies :
               /\ gets' = BagAdd(gets, id)
               /\ IF out = "fail"
                  THEN /\ NextDoc(w)
                       /\ wjob' = [wjob EXCEPT ![w].got = TRUE]
                       /\ UNCHANGED fsVars
                  ELSE LET streamed == IF out = "ok" THEN body ELSE Prefix(body) IN
                       /\ \E onDisk \in (IF shared THEN AllBytes ELSE {streamed}) :
                            data' = [data EXCEPT ![ino] = onDisk]
                       /\ wroteFinal' = (wroteFinal \/ linked)
                       /\ wjob' = [wjob EXCEPT ![w].got = TRUE, ![w].getOk = (out = "ok")]
                       /\ IF out \in {"ok", "short"}
                          THEN /\ wpc' = [wpc EXCEPT ![w] = "finish"]
                               /\ wbytes' = [wbytes EXCEPT ![w] =
                                                IF hashing THEN streamed ELSE 0]
                               /\ UNCHANGED <<wdoc, wfd>>
                          ELSE NextDoc(w)
                       /\ UNCHANGED <<partF, finalF>>
    /\ UNCHANGED <<confVars, allTrueLatestDocs, facetVars, resolverVars, crashed, sent>>

\* args.search.Get(doc.HTTPURL, dest) and fileWriter.Close().
WorkerFetch(w) ==
    /\ wpc[w] = "fetch" /\ ~crashed
    /\ LET doc == wdoc[w]
           id == doc.InstanceID
           ino == wfd[w]
           h == getHasher(GetSum(doc), GetSumType(doc))
           hashing == ~h.err /\ ~args.noVerify
           shared == \E v \in Workers : v # w /\ wpc[v] = "fetch" /\ wfd[v] = ino
           linked == \E i \in DOMAIN finalF : finalF[i] = ino
       IN IF doc.HTTPURL = ""
          THEN /\ NextDoc(w)
               /\ UNCHANGED <<wjob, fsVars, gets>>
          ELSE \E out \in GetOutcomes, body \in Bodies :
               /\ gets' = BagAdd(gets, id)
               /\ IF out = "fail"
                  THEN /\ NextDoc(w)
                       /\ wjob' = [wjob EXCEPT ![w].got = TRUE]
                       /\ UNCHANGED fsVars
                  ELSE LET streamed == IF out = "ok" THEN body ELSE Prefix(body) IN
                       /\ \E onDisk \in (IF shared THEN AllBytes ELSE {streamed}) :
                            data' = [data EXCEPT ![ino] = onDisk]
                       /\ wroteFinal' = (wroteFinal \/ linked)
                       /\ wjob' = [wjob EXCEPT ![w].got = TRUE, ![w].getOk = (out = "ok")]
                       /\ IF out = "ok"
                          THEN /\ wpc' = [wpc EXCEPT ![w] = "finish"]
                               /\ wbytes' = [wbytes EXCEPT ![w] =
                                                IF hashing THEN streamed ELSE 0]
                               /\ UNCHANGED <<wdoc, wfd>>
                          ELSE NextDoc(w)
                       /\ UNCHANGED <<partF, finalF>>
    /\ UNCHANGED <<confVars, allTrueLatestDocs, facetVars, resolverVars, crashed, sent>>

\* Mutant of WorkerFinish: the outcome of the comparison is ignored.
WorkerFinishUnverified(w) ==
    /\ wpc[w] = "finish" /\ ~crashed
    /\ LET doc == wdoc[w]
           id == doc.InstanceID
           h == getHasher(GetSum(doc), GetSumType(doc))
       IN IF ~h.err \/ args.noVerify
          THEN \E renameOk \in IoOutcomes :
               IF renameOk /\ id \in DOMAIN partF
               THEN /\ finalF' = Put(finalF, id, partF[id])
                    /\ partF' = Remove(partF, id)
                    /\ wjob' = [wjob EXCEPT ![w].renamed = TRUE]
                    /\ UNCHANGED <<data, wroteFinal>>
               ELSE /\ wjob' = [wjob EXCEPT ![w].renameErr = TRUE]
                    /\ UNCHANGED fsVars
          ELSE UNCHANGED <<wjob, fsVars>>
    /\ NextDoc(w)
    /\ UNCHANGED <<confVars, allTrueLatestDocs, facetVars, resolverVars, crashed, sent, gets>>

\* Verification of the streamed hash and os.Rename to the final path.
WorkerFinish(w) ==
    /\ wpc[w] = "finish" /\ ~crashed
    /\ LET doc == wdoc[w]
           id == doc.InstanceID
           h == getHasher(GetSum(doc), GetSumType(doc))
           verified == HexSum(h.alg, wbytes[w]) = GetSum(doc)
       IN IF ~h.err /\ ~args.noVerify /\ ~verified
          THEN UNCHANGED <<wjob, fsVars>>
          ELSE IF ~h.err \/ args.noVerify
          THEN \E renameOk \in IoOutcomes :
               IF renameOk /\ id \in DOMAIN partF
               THEN /\ finalF' = Put(finalF, id, partF[id])
                    /\ partF' = Remove(partF, id)
                    /\ wjob' = [wjob EXCEPT ![w].renamed = TRUE]
                    /\ UNCHANGED <<data, wroteFinal>>
               ELSE /\ wjob' = [wjob EXCEPT ![w].renameErr = TRUE]
                    /\ UNCHANGED fsVars
          ELSE UNCHANGED <<wjob, fsVars>>
    /\ NextDoc(w)
    /\ UNCHANGED <<confVars, allTrueLatestDocs, facetVars, resolverVars, crashed, sent, gets>>

\* `range inDocs` ends on the closed, drained channel; waiter.Done().
WorkerExit(w) ==
    /\ wpc[w] = "recv" /\ closed /\ ~crashed
    /\ wpc' = [wpc EXCEPT ![w] = "exit"]
    /\ UNCHANGED <<confVars, allTrueLatestDocs, facetVars, resolverVars, wdoc, wfd, wbytes, wjob, fsVars, crashed,
                   sent, gets>>

\* ------------------------------------------------------------ initial states
SeqsUpTo(S, k) == UNION {[1..m -> S] : m \in 0..k}

\* data_node_priority: listed nodes, high to low priority.
PrioLists == {p \in SeqsUpTo(Nodes, MaxNodes) :
                \A i, j \in 1..Len(p) : i # j => p[i] # p[j]}

Args(parallel, confirm, count, noVerify, noDownload, urlsOnly) ==
    [parallel |-> parallel, confirm |-> confirm, count |-> count,
     noVerify |-> noVerify, noDownload |-> noDownload, urlsOnly |-> urlsOnly,
     unsafe |-> FALSE]

Env(idxFaults, ioFaults) == [idxFaults |-> idxFaults, ioFaults |-> ioFaults]

PlainRecs == {PlainRec(id, nd, r) : id \in Ids, nd \in Nodes, r \in {"true", "false"}}

\* The multiplicities and values the checksum fields and the url list may have.
SumShapes == {<<>>, GoodSum, <<HexSum("MD5", 1)>>, <<UpperHex("SHA256", 1)>>,
              <<HexSum("SHA256", 1), HexSum("SHA256", 1)>>}
TypeShapes == {<<>>, <<"SHA256">>, <<"MD5">>, <<"CRC32">>, <<"SHA256", "SHA256">>}
UrlShapes == {GoodUrls, <<UrlGridFTP>>}
AnyRecs == {Rec(1, NodeNames[1], "false", sm, ty, u) :
              sm \in SumShapes, ty \in TypeShapes, u \in UrlShapes}
FewRecs == {Rec(id, NodeNames[1], "false", st[1], st[2], GoodUrls) :
              id \in Ids, st \in {<<GoodSum, GoodType>>, <<GoodSum, <<>>>>}}

\* Files found in the output directory: id -> bytes of <id>, for some ids.
OldFinals(ids) == UNION {[S -> 1..NumContents] : S \in SUBSET ids}

Scenario(idx, blk, prio, a, e, fin, prt) ==
    [index |-> idx, bulk |-> blk, prio |-> prio, args |-> a, env |-> e,
     fin |-> fin, prt |-> prt, fields |-> [project |-> Lit("CMIP6")]]

\* Indexes around the confirmation threshold and the page size.
BulkSizes == {warnCount, warnCount + 1, limit, limit + 1}

\* config.Init: the special fields are hard set, softDataNode tells whether a
\* priority list was given.
\* Mutant of InitFields: retracted and latest are set only when the config
\* file does not give them.
InitFieldsKeepCaller(fields, unsafe) ==
    LET f == Put(Put(fields, "replica", Star), "data_node", Star)
        g == IF "retracted" \in DOMAIN f THEN f ELSE Put(f, "retracted", Lit("false"))
    IN IF unsafe THEN f
       ELSE IF "latest" \in DOMAIN g THEN g ELSE Put(g, "latest", Lit("true"))

\* Mutant of InitFields: data_node is not reset to "*".
InitFieldsKeepDataNode(fields, unsafe) ==
    LET f == IF "data_node" \in DOMAIN fields
             THEN Put(fields, "replica", Star)
             ELSE Put(Put(fields, "replica", Star), "data_node", Star)
    IN IF unsafe THEN f
       ELSE Put(Put(f, "retracted", Lit("false")), "latest", Lit("true"))

InitFields(fields, unsafe) ==
    LET f == Put(Put(fields, "replica", Star), "data_node", Star) IN
    IF unsafe THEN f
    ELSE Put(Put(f, "retracted", Lit("false")), "latest", Lit("true"))

\* The state before any request, but for the Search value.
InitRest(sc) ==
    /\ conf = [fields |-> sc.fields, data_node_priority |-> sc.prio]
    /\ args = sc.args
    /\ index = sc.index
    /\ bulk = sc.bulk
    /\ env = sc.env
    /\ softDataNode = (Len(sc.prio) # 0)
    /\ pc = "start"
    /\ n = 0
    /\ warned = FALSE
    /\ cur = 0 /\ page = <<>> /\ pidx = 1 /\ remaining = 0
    /\ dataNodeMatches = {}
    /\ allDocs = EmptyMap
    /\ toSelect = {}
    /\ jobsSubmitted = 0 /\ prefJobsSubmitted = 0
    /\ started = FALSE
    /\ closed = FALSE
    /\ wpc = [w \in Workers |-> "off"]
    /\ wdoc = [w \in Workers |-> NoDoc]
    /\ wfd = [w \in Workers |-> NoIno]
    /\ wbytes = [w \in Workers |-> 0]
    /\ wjob = [w \in Workers |-> NoJob]
    /\ finalF = [id \in DOMAIN sc.fin |-> <<id, 1>>]
    /\ partF = [id \in sc.prt |-> <<id, IF id \in DOMAIN sc.fin THEN 2 ELSE 1>>]
    /\ data = [i \in {<<id, 1>> : id \in DOMAIN sc.fin \cup sc.prt}
                     \cup {<<id, 2>> : id \in DOMAIN sc.fin \cap sc.prt} |->
                 IF i[1] \in DOMAIN sc.fin /\ i[2] = 1 THEN sc.fin[i[1]] ELSE Prefix(1)]
    /\ crashed = FALSE
    /\ sent = EmptyMap
    /\ gets = EmptyMap
    /\ origDocs = {} /\ replDocs = {}
    /\ queries = <<>>
    /\ wroteFinal = FALSE
    /\ facetRaw = <<>>
    /\ facetMap = EmptyMap
    /\ allTrueLatestDocs = EmptyMap

InitFrom(sc) ==
    /\ search = [Fields |-> InitFields(sc.fields, sc.args.unsafe),
                 DataNodePriority |-> sc.prio]
    /\ InitRest(sc)

\* Resolution over every small index of plain records, in a dry run.  The
\* instance_ids are interchangeable, so the first record carries the first.
InitResolve ==
    \E idx \in SeqsUpTo(PlainRecs, MaxDocs), prio \in PrioLists,
       par \in 0..MaxParallel, f \in BOOLEAN, ct \in BOOLEAN :
        /\ IF Len(idx) = 0 THEN TRUE ELSE idx[1].InstanceID = 1
        /\ f => par = 1
        /\ ct => (par = 1 /\ ~f)
        /\ InitFrom(Scenario(idx, 0, prio, Args(par, FALSE, ct, FALSE, TRUE, FALSE),
                             Env(f, FALSE), EmptyMap, {}))

\* One file of any checksum shape, downloaded into any output directory.
InitOneFile ==
    \E r \in AnyRecs, par \in 1..MaxParallel, nv \in BOOLEAN, uo \in BOOLEAN,
       f \in BOOLEAN, fin \in OldFinals({1}), prt \in SUBSET {1}, ct \in BOOLEAN :
        /\ ct => (par = 1 /\ ~nv /\ ~uo /\ ~f)
        /\ InitFrom(Scenario(<<r>>, 0, <<>>, Args(par, FALSE, ct, nv, FALSE, uo),
                             Env(FALSE, f), fin, prt))

\* MaxJobs files, possibly of one instance_id, downloaded concurrently into a
\* directory that may hold verified files.
InitManyFiles ==
    \E idx \in [1..MaxJobs -> FewRecs], par \in 1..MaxParallel, nv \in BOOLEAN,
       f \in BOOLEAN, old \in SUBSET Ids :
        InitFrom(Scenario(idx, 0, <<>>, Args(par, FALSE, FALSE, nv, FALSE, FALSE),
                          Env(FALSE, f), [id \in old |-> 1], {}))

\* Many plain originals and no replica, with every combination of options,
\* handled by a single worker.
InitBulk ==
    \E t \in BulkSizes, prio \in {<<>>, <<NodeNames[MaxNodes]>>},
       cf \in BOOLEAN, ct \in BOOLEAN, nd \in BOOLEAN :
        InitFrom(Scenario(<<>>, t, prio, Args(1, cf, ct, FALSE, nd, FALSE),
                          Env(FALSE, FALSE), EmptyMap, {}))

\* What a config file may say about the special fields: nothing, or a value
\* other than the one the program sets.
ReservedFields == {"retracted", "latest", "replica", "data_node"}
CallerValue(k) ==
    CASE k = "retracted" -> Lit("true")
      [] k = "latest" -> Lit("false")
      [] k = "replica" -> Lit("true")
      [] k = "data_node" -> Lit(NodeNames[1])
      [] OTHER -> Lit("CMIP6")
CallerFields ==
    {[k \in S \cup {"project"} |-> CallerValue(k)] : S \in SUBSET ReservedFields}

\* Resolution of one file with a replica, for every config file and with or
\* without -unsafe, in a dry run.
InitCaller ==
    \E flds \in CallerFields, prio \in PrioLists, u \in BOOLEAN :
        InitFrom([Scenario(<<PlainRec(1, NodeNames[1], "false"),
                             PlainRec(1, NodeNames[MaxNodes], "true")>>,
                           0, prio,
                           [Args(1, FALSE, FALSE, FALSE, TRUE, FALSE) EXCEPT !.unsafe = u],
                           Env(FALSE, FALSE), EmptyMap, {})
                    EXCEPT !.fields = flds])

Init == InitResolve \/ InitOneFile \/ InitManyFiles \/ InitBulk \/ InitCaller

Next ==
    \/ CountQuery
    \/ FacetQuery
    \/ Spawn
    \/ OrigPage
    \/ ReplPage
    \/ Close
    \/ Wait
    \/ \E w \in Workers : OrigSend(w)
    \/ \E w \in Workers : Select(w)
    \/ \E w \in Workers : WorkerStart(w)
    \/ \E w \in Workers : WorkerFetch(w)
    \/ \E w \in Workers : WorkerFinish(w)
    \/ \E w \in Workers : WorkerExit(w)

Spec == Init /\ [][Next]_vars

\* The runs whose termination is checked: resolution with replica preference
\* in a dry run, and the download of one file of any checksum shape.
LiveInit == InitCaller \/ InitOneFile

\* The Go scheduler runs every goroutine that can take a step, and every
\* transfer ends: no step that stays possible is postponed for ever.
LiveSpec == LiveInit /\ [][Next]_vars /\ WF_vars(Next)

\* ---------------------------------------------------- the index client alone
\* A Search value used directly, without config.Init: any field mapping, the
\* empty one included, and any offset and page size.
PageTotals == {0, 1, PageSize, PageTotal}
PageSkips == {0, PageSize, 2 * PageSize, 3 * PageSize}
PageLimits == {0, PageSize, limit}
PageFields ==
    {EmptyMap,
     [replica |-> Lit("false")],
     "-project" :> Lit("CMIP6"),
     ("replica" :> Lit("false")) @@ ("-project" :> Lit("CMIP5"))}

PageInit ==
    \E t \in PageTotals, idx \in {<<>>, <<PlainRec(1, NodeNames[1], "true")>>},
       flds \in PageFields :
        /\ search = [Fields |-> flds, DataNodePriority |-> <<>>]
        /\ InitRest([Scenario(idx, t, <<>>,
                               Args(1, FALSE, FALSE, FALSE, TRUE, FALSE),
                               Env(TRUE, FALSE), EmptyMap, {})
                        EXCEPT !.fields = flds])

\* One call s.SearchURLs(skip, lim); the request and its results are kept.
SearchPage ==
    \E skip \in PageSkips, lim \in PageLimits, ok \in IdxOutcomes :
        LET r == SearchURLs(Index, search.Fields, skip, lim, ok) IN
        /\ queries' = <<Query("search", search.Fields, skip, lim, ok)>>
        /\ cur' = skip
        /\ page' = r.docs
        /\ remaining' = r.remaining
        /\ facetRaw' = <<>>
        /\ facetMap' = EmptyMap
        /\ UNCHANGED <<confVars, allTrueLatestDocs, search, softDataNode, pc, n, warned, pidx,
                       dataNodeMatches, allDocs, toSelect, jobsSubmitted,
                       prefJobsSubmitted, started, closed, wpc, wdoc, wfd, wbytes,
                       wjob, fsVars, crashed, sent, gets, origDocs, replDocs>>

\* The value/count lists an index may answer a facet request with: strings
\* and numbers in any order, the well-formed alternation included.
FacetCounts == {1, 2}
RawFacetLists ==
    SeqsUpTo({FacetStr(nd) : nd \in Nodes} \cup {FacetNum(c) : c \in FacetCounts},
             MaxFacetLen)

\* One call Facet(s, "data_node"); the request, the list of the answer and
\* the map returned are kept.
FacetCall ==
    \E raw \in RawFacetLists, ok \in IdxOutcomes :
        /\ ~ok => raw = <<>>
        /\ queries' = <<Query("facet", search.Fields, 0, 0, ok)>>
        /\ facetRaw' = raw
        /\ facetMap' = FacetOf(raw, ok)
        /\ cur' = 0
        /\ page' = <<>>
        /\ remaining' = 0
        /\ UNCHANGED <<confVars, allTrueLatestDocs, search, softDataNode, pc, n, warned, pidx,
                       dataNodeMatches, allDocs, toSelect, jobsSubmitted,
                       prefJobsSubmitted, started, closed, wpc, wdoc, wfd, wbytes,
                       wjob, fsVars, crashed, sent, gets, origDocs, replDocs>>

PageNext == SearchPage \/ FacetCall

PageSpec == PageInit /\ [][PageNext]_vars

\* ------------------------------------------- getBySearch of version 0.1.1
\* The earlier getBySearch (src/cmd/sproket/main.go): a data_node given in
\* the config file is a hard requirement, the replica pass asks for every
\* copy (replica "*"), and the count is reported and checked again after
\* the two passes.  getData is run without downloads.
poolVars == <<started, closed, wpc, wdoc, wfd, wbytes, wjob, fsVars, crashed, sent, gets>>

\* Init of 0.1.1: replica, retracted and latest are hard set, data_node is
\* left as the config file gives it.
V1InitFields(fields) ==
    Put(Put(Put(fields, "replica", Star), "retracted", Lit("false")),
        "latest", Lit("true"))

hardDataNode == "data_node" \in DOMAIN conf.fields
dataNodeReqs == conf.fields["data_node"]

\* Replica loop body of 0.1.1: a Doc of a known instance_id is entered in
\* allDesiredDocs, whose mapping is made on first use.
RECURSIVE AddDesired(_, _, _)
AddDesired(docs, m, known) ==
    IF docs = <<>> THEN m
    ELSE AddDesired(Tail(docs),
             IF Head(docs).InstanceID \in known
             THEN Put(m, Head(docs).InstanceID,
                      Put(IF Head(docs).InstanceID \in DOMAIN m
                          THEN m[Head(docs).InstanceID] ELSE EmptyMap,
                          Head(docs).DataNode, Head(docs)))
             ELSE m,
             known)

\* DataNodes(&search) under a hard or soft data node requirement: no node at
\* all ends the run, no listed node turns the preference off.
V1DataNodes ==
    /\ pc = "start" /\ ~crashed
    /\ IF hardDataNode \/ softDataNode
       THEN \E ok \in IdxOutcomes :
              LET flds == [search.Fields EXCEPT !["replica"] = Star]
                  dataNodes == Facet(Index, flds, ok)
                  found == DOMAIN dataNodes \cap SeqToSet(search.DataNodePriority) # {}
              IN /\ queries' = Append(queries, Query("facet", flds, 0, 0, ok))
                 /\ facetRaw' = (IF ok THEN IndexFacet(Index, buildQ(flds)) ELSE <<>>)
                 /\ facetMap' = dataNodes
                 /\ IF DOMAIN dataNodes = {}
                    THEN /\ pc' = "done"
                         /\ search' = [search EXCEPT !.Fields = flds]
                         /\ softDataNode' = softDataNode
                    ELSE /\ softDataNode' = (softDataNode /\ found)
                         /\ pc' = IF hardDataNode THEN "spawn" ELSE "count"
                         /\ search' = [search EXCEPT !.Fields =
                                IF hardDataNode
                                THEN Put(Put(flds, "replica", Lit("false")),
                                         "data_node", Star)
                                ELSE Put(flds, "replica", Lit("false"))]
       ELSE /\ search' = [search EXCEPT !.Fields["replica"] = Lit("false")]
            /\ pc' = "count"
            /\ UNCHANGED <<softDataNode, queries, facetRaw, facetMap>>
    /\ UNCHANGED <<confVars, n, warned, cur, page, pidx, remaining, dataNodeMatches,
                   allDocs, toSelect, jobsSubmitted, prefJobsSubmitted, poolVars,
                   origDocs, replDocs, allTrueLatestDocs>>

\* Without a hard requirement: count the originals, stop on -count and on an
\* unconfirmed count above the threshold; then data_node becomes "*".
V1Count ==
    /\ pc = "count" /\ ~crashed
    /\ \E ok \in IdxOutcomes :
         LET r == SearchURLs(Index, search.Fields, 0, 0, ok) IN
         /\ queries' = Append(queries, Query("search", search.Fields, 0, 0, ok))
         /\ n' = r.remaining
         /\ IF args.count
            THEN pc' = "done" /\ UNCHANGED <<warned, search>>
            ELSE IF TooMany(r.remaining)
            THEN pc' = "done" /\ warned' = TRUE /\ search' = search
            ELSE /\ pc' = "spawn" /\ warned' = warned
                 /\ search' = [search EXCEPT
                                  !.Fields = Put(search.Fields, "data_node", Star)]
    /\ UNCHANGED <<confVars, softDataNode, cur, page, pidx, remaining,
                   dataNodeMatches, allDocs, toSelect, jobsSubmitted,
                   prefJobsSubmitted, poolVars, origDocs, replDocs, facetVars,
                   allTrueLatestDocs>>

\* One page of originals: sent one by one without any data node
\* requirement, recorded in allTrueLatestDocs otherwise.  After the last
\* page the replica pass asks for every copy, on the required nodes if any.
V1OrigPage ==
    /\ pc = "orig_query" /\ ~crashed
    /\ \E ok \in IdxOutcomes :
         LET r == SearchURLs(Index, search.Fields, cur, limit, ok) IN
         /\ queries' = Append(queries, Query("search", search.Fields, cur, limit, ok))
         /\ origDocs' = origDocs \cup SeqToSet(r.docs)
         /\ remaining' = r.remaining
         /\ IF hardDataNode \/ softDataNode
            THEN /\ allTrueLatestDocs' = InsertOriginals(r.docs, allTrueLatestDocs)
                 /\ page' = <<>> /\ pidx' = 1
                 /\ IF r.remaining # 0
                    THEN /\ cur' = cur + limit
                         /\ pc' = "orig_query"
                         /\ search' = search
                    ELSE /\ cur' = 0
                         /\ pc' = "repl_query"
                         /\ search' = [search EXCEPT !.Fields =
                                IF hardDataNode
                                THEN Put(Put(search.Fields, "replica", Star),
                                         "data_node", dataNodeReqs)
                                ELSE Put(search.Fields, "replica", Star)]
            ELSE /\ allTrueLatestDocs' = allTrueLatestDocs
                 /\ IF r.docs = <<>>
                    THEN /\ page' = <<>> /\ pidx' = 1
                         /\ AfterOrigPage(r.remaining)
                    ELSE /\ page' = r.docs /\ pidx' = 1
                         /\ pc' = "orig_send"
                         /\ UNCHANGED <<cur, search>>
    /\ UNCHANGED <<confVars, softDataNode, n, warned, dataNodeMatches, allDocs,
                   toSelect, jobsSubmitted, prefJobsSubmitted, poolVars, replDocs,
                   facetVars>>

\* One page of the copies of the wanted files.
V1ReplPage ==
    /\ pc = "repl_query" /\ ~crashed
    /\ \E ok \in IdxOutcomes :
         LET r == SearchURLs(Index, search.Fields, cur, limit, ok) IN
         /\ queries' = Append(queries, Query("search", search.Fields, cur, limit, ok))
         /\ replDocs' = replDocs \cup SeqToSet(r.docs)
         /\ remaining' = r.remaining
         /\ allDocs' = AddDesired(r.docs, allDocs, DOMAIN allTrueLatestDocs)
         /\ IF r.remaining # 0
            THEN cur' = cur + limit /\ pc' = "repl_query"
            ELSE cur' = cur /\ pc' = "report"
    /\ UNCHANGED <<confVars, search, softDataNode, n, warned, page, pidx,
                   dataNodeMatches, toSelect, jobsSubmitted, prefJobsSubmitted,
                   poolVars, origDocs, facetVars, allTrueLatestDocs>>

\* After the two passes: len(allDesiredDocs) is reported; -count closes the
\* channel, waits and returns; an unconfirmed count above the threshold
\* returns; otherwise the selection loop follows.
V1Report ==
    /\ pc = "report" /\ ~crashed
    /\ n' = Cardinality(DOMAIN allDocs)
    /\ IF args.count
       THEN pc' = "close" /\ UNCHANGED <<warned, toSelect>>
       ELSE IF TooMany(Cardinality(DOMAIN allDocs))
       THEN pc' = "done" /\ warned' = TRUE /\ toSelect' = toSelect
       ELSE /\ warned' = warned
            /\ toSelect' = DOMAIN allDocs
            /\ pc' = IF DOMAIN allDocs = {} THEN "close" ELSE "select"
    /\ jobsSubmitted' = 0 /\ prefJobsSubmitted' = 0
    /\ UNCHANGED <<confVars, search, softDataNode, cur, page, pidx, remaining,
                   dataNodeMatches, allDocs, poolVars, origDocs, replDocs, queries,
                   facetVars, allTrueLatestDocs>>

\* What the config file of a 0.1.1 run says about data_node.
V1Fields ==
    {[project |-> Lit("CMIP6")]}
        \cup {[project |-> Lit("CMIP6"), data_node |-> Lit(nd)] : nd \in Nodes}

V1InitFrom(sc) ==
    /\ search = [Fields |-> V1InitFields(sc.fields), DataNodePriority |-> sc.prio]
    /\ InitRest(sc)

\* Small indexes of plain records, with and without a hard requirement.
V1InitResolve ==
    \E idx \in SeqsUpTo(PlainRecs, MaxDocs), prio \in PrioLists, flds \in V1Fields,
       par \in 1..MaxParallel, f \in BOOLEAN, ct \in BOOLEAN :
        /\ IF Len(idx) = 0 THEN TRUE ELSE idx[1].InstanceID = 1
        /\ (f \/ ct) => par = 1
        /\ V1InitFrom([Scenario(idx, 0, prio,
                                 Args(par, FALSE, ct, FALSE, TRUE, FALSE),
                                 Env(f, FALSE), EmptyMap, {})
                          EXCEPT !.fields = flds])

\* One more original than the threshold allows, all on the first node.
V1InitBulk ==
    \E prio \in {<<>>, <<NodeNames[1]>>}, flds \in V1Fields,
       par \in 1..MaxParallel, ct \in BOOLEAN :
        V1InitFrom([Scenario(<<>>, warnCount + 1, prio,
                             Args(par, FALSE, ct, FALSE, TRUE, FALSE),
                             Env(FALSE, FALSE), EmptyMap, {})
                      EXCEPT !.fields = flds])

V1Init == V1InitResolve \/ V1InitBulk

V1Next ==
    \/ V1DataNodes
    \/ V1Count
    \/ Spawn
    \/ V1OrigPage
    \/ \E w \in Workers : OrigSend(w)
    \/ V1ReplPage
    \/ V1Report
    \/ \E w \in Workers : Select(w)
    \/ Close
    \/ Wait
    \/ \E w \in Workers : WorkerStart(w)
    \/ \E w \in Workers : WorkerExit(w)

V1Spec == V1Init /\ [][V1Next]_vars

\* ------------------------------------------------------------- vocabulary
SentDocs == DOMAIN sent
SentOf(id) == {d \in SentDocs : d.InstanceID = id}
IdsOf(docs) == {d.InstanceID : d \in docs}
Listed == SeqToSet(search.DataNodePriority)
\* getBySearch is past the replica pass with replica preference active.
Selecting == softDataNode /\ pc \in {"select", "close", "wait", "done"}
\* The LogicalFiles the selection loop has already visited.
Selected == IF Selecting THEN DOMAIN allDocs \ toSelect ELSE {}
\* The originals of the index, as the index holds them.
Originals == {r \in SeqToSet(Index) : r.replica = "false"}
UniqueOriginals == Cardinality(IdsOf(Originals)) = Cardinality(Originals)
                   /\ Cardinality(Originals) = Cardinality({i \in 1..Len(Index) : Index[i].replica = "false"})

\* ---------------------------------------------------------------- claims

\* C1: in one run of getBySearch at most one Doc per instance_id is ever
\* sent on the job channel, and once the channel is closed one has been sent
\* for every instance_id the originals pass returned.
C1_OnePerInstanceId ==
    /\ \A d \in SentDocs : sent[d] = 1
    /\ Cardinality(IdsOf(SentDocs)) = Cardinality(SentDocs)
    /\ (started /\ pc \in {"wait", "done"}) => IdsOf(origDocs) \subseteq IdsOf(SentDocs)

\* The position of a node in the priority list, 0 when it is not listed.
Pos(nd) ==
    LET S == {i \in 1..Len(search.DataNodePriority) : search.DataNodePriority[i] = nd}
    IN IF S = {} THEN 0 ELSE CHOOSE i \in S : \A j \in S : i <= j

\* The listed node of smallest position among the keys of a mapping.
EarliestListed(m) ==
    CHOOSE nd \in DOMAIN m \cap Listed :
        \A other \in DOMAIN m \cap Listed : Pos(nd) <= Pos(other)

\* C2: with replica preference active, for every LogicalFile whose mapping
\* holds a node of the priority list, the only Doc enqueued is the entry on
\* the earliest listed node present in the mapping.
C2_EarliestListedNode ==
    \A id \in Selected :
        DOMAIN allDocs[id] \cap Listed # {}
            => SentOf(id) = {allDocs[id][EarliestListed(allDocs[id])]}

\* Priority list [B, A], copies on both A and B: B's Doc was enqueued.
C2_Witness ==
    /\ pc = "done" /\ Selecting
    /\ search.DataNodePriority = <<NodeNames[2], NodeNames[1]>>
    /\ \E id \in Selected :
         /\ DOMAIN allDocs[id] = {NodeNames[1], NodeNames[2]}
         /\ SentOf(id) = {allDocs[id][NodeNames[2]]}

\* The replica entries of a LogicalFile's mapping.
ReplicaNodes(m) == {nd \in DOMAIN m : m[nd].replica = "true"}

\* The records of the index that are replicas of a file on a listed node.
ServedReplicas(id) ==
    {r \in SeqToSet(Index) :
        r.InstanceID = id /\ r.replica = "true" /\ r.DataNode \in Listed}

\* C3 as stated: with every index request answered and one original per
\* file, once all jobs are enqueued the Doc of a file is a listed node's
\* replica copy whenever a listed node serves a replica of it, and the
\* canonical original otherwise.
C3_ReplicaAlwaysPreferred ==
    (~env.idxFaults /\ UniqueOriginals /\ started /\ pc \in {"wait", "done"}) =>
        \A id \in IdsOf(Originals) : \A d \in SentOf(id) :
            IF ServedReplicas(id) # {}
            THEN d.replica = "true" /\ d.DataNode \in Listed
            ELSE d.replica = "false"

\* C3 amended: every Doc enqueued belongs to a file of the originals pass.
\* When a listed node's replica of the file is recorded in its mapping, the
\* Doc enqueued is on a listed node and is a replica copy unless the
\* original's own node is listed before every recorded replica node; when
\* none is recorded, the canonical original's Doc is enqueued.
C3_ReplicaUnlessOriginalListedEarlier ==
    \A d \in SentDocs :
        /\ d.InstanceID \in IdsOf(origDocs)
        /\ IF Selecting /\ ReplicaNodes(allDocs[d.InstanceID]) # {}
           THEN /\ d.DataNode \in Listed
                /\ \/ d.replica = "true"
                   \/ \A nd \in ReplicaNodes(allDocs[d.InstanceID]) :
                         Pos(d.DataNode) < Pos(nd)
           ELSE d.replica = "false" /\ d \in origDocs

\* Priority list [A, B], original on A and a replica on B recorded: the
\* original was enqueued.
C3_Witness ==
    /\ pc = "done" /\ Selecting
    /\ search.DataNodePriority = <<NodeNames[1], NodeNames[2]>>
    /\ \E id \in Selected :
         /\ DOMAIN allDocs[id] = {NodeNames[1], NodeNames[2]}
         /\ allDocs[id][NodeNames[1]].replica = "false"
         /\ allDocs[id][NodeNames[2]].replica = "true"
         /\ SentOf(id) = {allDocs[id][NodeNames[1]]}

\* C4: with replica preference active, every LogicalFile the selection loop
\* has visited got exactly one Doc enqueued, an entry of its own mapping,
\* nothing else was enqueued, and after the loop the number of jobs
\* submitted is the number of LogicalFiles.
C4_OneJobPerLogicalFile ==
    Selecting =>
        /\ \A id \in Selected :
             \E nd \in DOMAIN allDocs[id] :
                 SentOf(id) = {allDocs[id][nd]} /\ sent[allDocs[id][nd]] = 1
        /\ IdsOf(SentDocs) = Selected
        /\ jobsSubmitted = Cardinality(Selected)
        /\ pc # "select" => jobsSubmitted = Cardinality(DOMAIN allDocs)

\* Two LogicalFiles resolved, one of them without any listed node in its
\* mapping, and a job enqueued for it all the same.
C4_Witness ==
    /\ pc = "done" /\ Selecting
    /\ Cardinality(DOMAIN allDocs) >= 2
    /\ \E id \in Selected :
         /\ DOMAIN allDocs[id] \cap Listed = {}
         /\ SentOf(id) # {}


\* The Doc carries one checksum of a supported type.
ChecksumUsable(d) ==
    Len(d.Sum) = 1 /\ Len(d.SumType) >= 1 /\ d.SumType[1] \in {"MD5", "SHA256"}

\* The lower-case hex digest of the bytes under the Doc's checksum type is
\* the Doc's checksum.
Verifies(d, bytes) == ChecksumUsable(d) /\ d.Sum[1] = HexSum(d.SumType[1], bytes)

\* C5: a worker that takes up a job whose final path exists, can be read and
\* holds content that passes verification goes on to the next job at once:
\* no HTTP GET is issued, no partial file is created, nothing on disk
\* changes.
C5_VerifiedFileSkipped ==
    [][\A w \in Workers :
        ( /\ wpc[w] = "got" /\ wjob'[w] # wjob[w] /\ Downloading
          /\ wdoc[w].InstanceID \in DOMAIN finalF
          /\ ~wjob'[w].openFailed
          /\ Verifies(wdoc[w], data[finalF[wdoc[w].InstanceID]]) )
        => ( /\ wpc'[w] = "recv" /\ ~crashed'
             /\ wjob'[w].skipped /\ ~wjob'[w].created /\ ~wjob'[w].got
             /\ gets' = gets /\ fsVars' = fsVars )]_vars

\* A second run over a directory of verified files has ended: every Doc
\* enqueued was skipped, no GET was issued and no partial file exists.
C5_Witness ==
    /\ pc = "done" /\ Downloading /\ ~crashed
    /\ Cardinality(SentDocs) >= 2
    /\ \A d \in SentDocs :
         /\ d.InstanceID \in DOMAIN finalF
         /\ Verifies(d, data[finalF[d.InstanceID]])
    /\ \E w \in Workers : wjob[w].skipped
    /\ gets = EmptyMap /\ partF = EmptyMap

\* C6: the final path of a file is created or replaced only by the rename of
\* <id>.part, by a worker whose fetch succeeded and whose streamed hash equals
\* the checksum unless verification is disabled; and the bytes under a final
\* path never change otherwise: no download is written to it.
C6_FinalOnlyByRename ==
    [][/\ finalF' # finalF =>
            \E w \in Workers :
                /\ wpc[w] = "finish" /\ wjob[w].getOk
                /\ wdoc[w].InstanceID \in DOMAIN partF
                /\ finalF' = Put(finalF, wdoc[w].InstanceID, partF[wdoc[w].InstanceID])
                /\ wdoc[w].InstanceID \notin DOMAIN partF'
                /\ data' = data
                /\ args.noVerify \/ Verifies(wdoc[w], wbytes[w])
       /\ \A id \in DOMAIN finalF \cap DOMAIN finalF' :
            finalF'[id] = finalF[id] => data'[finalF[id]] = data[finalF[id]]
      ]_vars

\* C7: with verification enabled and a usable checksum, a worker that ends a
\* successful fetch renames the partial file to the final path when the
\* streamed hash equals the checksum (the rename succeeds whenever the
\* operating system performs it), and otherwise leaves the directory as it
\* is: the partial file is retained and nothing is renamed.
C7_VerificationGatesPromotion ==
    [][\A w \in Workers :
        ( /\ wpc[w] = "finish" /\ wpc'[w] = "recv"
          /\ ~args.noVerify /\ ChecksumUsable(wdoc[w]) )
        => LET id == wdoc[w].InstanceID IN
           IF Verifies(wdoc[w], wbytes[w])
           THEN /\ wjob'[w].renamed \/ wjob'[w].renameErr
                /\ wjob'[w].renamed =>
                      /\ id \in DOMAIN finalF' /\ finalF'[id] = partF[id]
                      /\ id \notin DOMAIN partF'
                /\ (~env.ioFaults /\ id \in DOMAIN partF) => wjob'[w].renamed
           ELSE /\ fsVars' = fsVars
                /\ ~wjob'[w].renamed /\ ~wjob'[w].renameErr]_vars

\* A complete body that is not the published content was fetched for a file
\* with a good checksum: the run has ended, the partial file holds the body
\* and no final path exists.
C7_Witness ==
    /\ pc = "done" /\ ~args.noVerify
    /\ Len(index) = 1 /\ Verifies(index[1], 1)
    /\ \E w \in Workers : wjob[w].getOk /\ ~wjob[w].renamed /\ ~wjob[w].renameErr
    /\ 1 \in DOMAIN partF /\ data[partF[1]] = 2
    /\ 1 \notin DOMAIN finalF

\* C8: no failure inside a job, a missing or unsupported checksum included,
\* takes the worker pool down.
C8_JobFailureNeverStopsPool == ~crashed

\* C9: a count above warnCount without confirmation ends the run with the
\* count reported, no worker started and nothing enqueued; a count of at most
\* warnCount, or a confirmation, raises no warning and the run proceeds.
C9_ThresholdGate ==
    /\ (pc # "start" /\ ~args.confirm /\ n > warnCount) =>
          /\ pc = "done" /\ ~started /\ sent = EmptyMap
          /\ warned \/ args.count
    /\ (pc # "start" /\ (n <= warnCount \/ args.confirm)) => ~warned
    /\ (pc # "start" /\ ~args.count /\ n > 0 /\ (n <= warnCount \/ args.confirm)) =>
          pc \in {"facet", "spawn"} \/ started

\* warnCount + 1 files counted, no confirmation: warned and stopped.
C9_Witness ==
    /\ pc = "done" /\ n = warnCount + 1 /\ ~args.confirm /\ ~args.count
    /\ warned /\ ~started /\ sent = EmptyMap

\* C10: with replica preference inactive, every index request answered and
\* T unique originals, once the channel is closed exactly T jobs have been
\* enqueued, one per original and none twice; and when a run that downloads
\* without faults has ended, every verifiable original is at its final path.
C10_PagingEnqueuesEachOriginalOnce ==
    (started /\ pc \in {"wait", "done"} /\ ~softDataNode /\ ~env.idxFaults
       /\ UniqueOriginals) =>
        /\ SentDocs = {WithHTTPURL(r) : r \in Originals}
        /\ \A d \in SentDocs : sent[d] = 1
        /\ Cardinality(SentDocs) = Cardinality(Originals)
        /\ (pc = "done" /\ Downloading /\ ~env.ioFaults /\ ~crashed) =>
              \A d \in SentDocs :
                  (Verifies(d, 1) /\ d.HTTPURL # "") =>
                      /\ d.InstanceID \in DOMAIN finalF
                      /\ data[finalF[d.InstanceID]] = 1

\* limit + 1 originals, confirmed: two pages were enqueued and downloaded.
C10_Witness ==
    /\ pc = "done" /\ args.confirm /\ ~softDataNode /\ Downloading
    /\ bulk = limit + 1
    /\ Cardinality(SentDocs) = limit + 1
    /\ Cardinality(DOMAIN finalF) = limit + 1

\* Some index request of the run has failed.
SomeQueryFailed == \E i \in 1..Len(queries) : ~queries[i].ok

\* C11: in a run one of whose index calls (count query, data_node facet, an
\* originals page, a replica page) has failed, no job is enqueued, neither
\* before nor after the failure.
C11_IndexFailureAborts == SomeQueryFailed => sent = EmptyMap

\* getBySearch has returned; if it started workers, the channel is closed and
\* every worker has left its loop.
Returned ==
    /\ pc = "done"
    /\ started => (closed /\ \A w \in Workers : wpc[w] \in {"off", "exit"})

\* Every job enqueued was received and has been processed to an outcome: no
\* worker still holds one.
AllJobsProcessed == \A w \in Workers : wpc[w] \notin {"got", "fetch", "finish"}

\* C12: with at least one worker, under fair scheduling, getBySearch
\* eventually returns with the channel closed, every enqueued job processed
\* and every worker terminated, and it never returns before that.
C12_PoolRunsToCompletion ==
    (args.parallel >= 1) =>
        /\ <>(Returned /\ AllJobsProcessed)
        /\ [](pc = "done" => Returned /\ AllJobsProcessed)

\* The worker has received a job and not yet finished it.
InProgress(w) == wpc[w] \in {"got", "fetch", "finish"}

\* C13: two jobs in progress at the same time have distinct instance_ids, so
\* that two workers never write through the same partial path.
C13_DistinctPathsInProgress ==
    \A w, v \in Workers :
        (w # v /\ InProgress(w) /\ InProgress(v)) =>
            /\ wdoc[w].InstanceID # wdoc[v].InstanceID
            /\ (wpc[w] = "fetch" /\ wpc[v] = "fetch") => wfd[w] # wfd[v]

\* The workers that hold a job.
Busy == {w \in Workers : InProgress(w)}

\* C14: at most args.parallel jobs are received and not yet finished; a Doc
\* is enqueued only in a step in which an idle worker receives it; and while
\* every worker is busy a producer that has a Doc to send stays where it is.
C14_AtMostNInProgress ==
    /\ [](Cardinality(Busy) <= args.parallel)
    /\ [][/\ sent' # sent =>
               \E w \in Workers :
                   /\ wpc[w] = "recv" /\ wpc'[w] = "got"
                   /\ sent' = BagAdd(sent, wdoc'[w])
          /\ (pc \in {"orig_send", "select"} /\ Cardinality(Busy) = args.parallel) =>
               (pc' = pc /\ sent' = sent /\ pidx' = pidx /\ toSelect' = toSelect)
         ]_vars

\* Both workers hold a job and the producer has a further Doc to send.
C14_Witness ==
    /\ args.parallel = MaxParallel
    /\ Cardinality(Busy) = MaxParallel
    /\ pc \in {"orig_send", "select"}

\* The query the caller's criteria give for originals: the fields of the
\* config file as config.Init leaves them, with replica=false.  Nothing here
\* depends on data_node_priority.
RequestedQuery ==
    buildQ(Put(InitFields(conf.fields, args.unsafe), "replica", Lit("false")))

\* The originals the caller's criteria select, as the index holds them.
RequestedOriginals ==
    SelectSeq(Index, LAMBDA r : r.replica = "false" /\ Matches(r, RequestedQuery))

\* The run stops after the count query: -count, or too many files
\* unconfirmed.
StopsAfterCount ==
    \/ args.count
    \/ ~args.confirm /\ Len(RequestedOriginals) > warnCount

\* C15: with every index request answered, the instance_ids enqueued by a
\* run that has closed the channel are those of the requested originals, for
\* every data_node_priority list, and a run that stops after the count
\* enqueues none: the list never changes which files are fetched.
C15_SameFilesForEveryPriorityList ==
    (~env.idxFaults /\ pc # "start") =>
        LET requested == IdsOf(SeqToSet(RequestedOriginals)) IN
        /\ IdsOf(SentDocs) \subseteq requested
        /\ sent # EmptyMap => ~StopsAfterCount
        /\ (started /\ pc \in {"wait", "done"}) => IdsOf(SentDocs) = requested

\* A run with replica preference active has ended: a listed node's replica
\* was enqueued for a requested file, and a replica the listed node holds of
\* a file that has no original was not.
C15_Witness ==
    /\ pc = "done" /\ Selecting /\ ~env.idxFaults
    /\ \E d \in SentDocs : d.replica = "true" /\ d.DataNode \in Listed
    /\ \E r \in SeqToSet(Index) :
         /\ r.replica = "true" /\ r.DataNode \in Listed
         /\ r.InstanceID \notin IdsOf(Originals)
    /\ IdsOf(SentDocs) = IdsOf(Originals)

\* The clauses of a query on one field.
ClausesOn(q, k) == {c \in q : c[1] = k}

C17_ReservedFieldsOverwritten ==
    \A i \in 1..Len(queries) :
        LET q == queries[i].q IN
        /\ ClausesOn(q, "replica") \in
              {{<<"replica", Lit("false")>>}, {<<"replica", Lit("true")>>}}
        /\ (i = 1 \/ (queries[i].kind = "search" /\ ~softDataNode)) =>
              ClausesOn(q, "replica") = {<<"replica", Lit("false")>>}
        /\ queries[i].kind = "facet" =>
              ClausesOn(q, "replica") = {<<"replica", Lit("true")>>}
        /\ \/ ClausesOn(q, "data_node") = {<<"data_node", Star>>}
           \/ /\ queries[i].kind = "search" /\ softDataNode
              /\ ClausesOn(q, "replica") = {<<"replica", Lit("true")>>}
              /\ dataNodeMatches # {} /\ dataNodeMatches \subseteq Listed
              /\ ClausesOn(q, "data_node") =
                    {<<"data_node", [wild |-> FALSE, alts |-> dataNodeMatches]>>}

\* The config file gives replica and data_node, and the run has issued its
\* count, facet, originals and replica requests.
C17_Witness ==
    /\ pc = "done"
    /\ {"replica", "data_node"} \subseteq DOMAIN conf.fields
    /\ Len(queries) >= 4
    /\ \E i \in 1..Len(queries) :
         ClausesOn(queries[i].q, "data_node") # {<<"data_node", Star>>}

\* C18: a worker that has taken up a download treats the Doc's checksum as
\* present (non-empty GetSum and GetSumType) exactly when the Doc carries
\* exactly one checksum value and exactly one checksum_type, and no
\* combination of multiplicities crashes it.
C18_ChecksumPresentIffOneAndOne ==
    /\ ~crashed
    /\ \A w \in Workers :
         wpc[w] \in {"fetch", "finish"} =>
             ((GetSum(wdoc[w]) # NoSum /\ GetSumType(wdoc[w]) # "")
                 <=> (Len(wdoc[w].Sum) = 1 /\ Len(wdoc[w].SumType) = 1))

\* max(0, x).
Floor0(x) == IF x < 0 THEN 0 ELSE x

\* How many records of the index a directly used Search value matches: all of
\* them under the empty mapping, the originals under replica=false, none
\* when the project every record belongs to is negated.
TotalMatches ==
    LET idx == Index
        f == search.Fields
    IN Cardinality({i \in 1..Len(idx) :
            /\ "replica" \in DOMAIN f => idx[i].replica = "false"
            /\ "-project" \in DOMAIN f => "CMIP6" \notin f["-project"].alts})

\* C19: a SearchURLs call at any offset and page size returns the window of
\* the matches at that offset and remaining = max(0, total - (skip +
\* len(docs))), the total being 0 when the request fails; a count-only call
\* (offset 0, limit 0) returns no docs and remaining equal to the total.
C19_RemainingIsFlooredDifference ==
    (queries # <<>> /\ queries[1].kind = "search") =>
        LET q == queries[1]
            total == IF q.ok THEN TotalMatches ELSE 0
        IN /\ Len(page) = Min(q.limit, Floor0(total - q.skip))
           /\ remaining = Floor0(total - (q.skip + Len(page)))
           /\ (q.limit = 0 /\ q.skip = 0) => (page = <<>> /\ remaining = total)

\* PageTotal matches, page size PageSize, third page: the rest of the
\* matches is returned and nothing remains (130 and 50: 30 docs, 0).
C19_Witness ==
    /\ index = <<>> /\ bulk = PageTotal
    /\ queries # <<>> /\ queries[1].ok
    /\ queries[1].skip = 2 * PageSize /\ queries[1].limit = PageSize
    /\ Len(page) = PageTotal - 2 * PageSize
    /\ remaining = 0

\* The query "*:*".
MatchEverything == {<<"*", [wild |-> TRUE, alts |-> {}]>>}

\* C20: a Search value with an empty field mapping sends the query "*:*",
\* and the answer is drawn from every record of the index.
C20_EmptyMappingMatchesEverything ==
    (DOMAIN search.Fields = {} /\ queries # <<>>) =>
        /\ queries[1].q = MatchEverything
        /\ (queries[1].ok /\ queries[1].kind = "search") =>
              Len(page) = Min(queries[1].limit, Floor0(Len(Index) - queries[1].skip))

\* The empty mapping over an index of a replica and PageTotal originals: one
\* page holds them all, the replica first.
C20_Witness ==
    /\ DOMAIN search.Fields = {}
    /\ Len(index) = 1 /\ bulk = PageTotal
    /\ queries # <<>> /\ queries[1].ok /\ queries[1].q = MatchEverything
    /\ Len(page) = PageTotal + 1
    /\ page[1].replica = "true"

\* C21: for a non-empty field mapping the query has exactly one clause per
\* field, field:(value), with the value of the mapping unmodified and a key
\* with a leading dash kept as it is, so that the clause is a negation; the
\* number of clauses is the number of fields.
C21_OneClausePerField ==
    (DOMAIN search.Fields # {} /\ queries # <<>>) =>
        LET q == queries[1].q
            f == search.Fields
        IN /\ Cardinality(q) = Cardinality(DOMAIN f)
           /\ \A c \in q : c[1] \in DOMAIN f
           /\ \A k \in DOMAIN f : ClausesOn(q, k) = {<<k, f[k]>>}
           /\ (queries[1].ok /\ "-project" \in DOMAIN f
                 /\ "CMIP6" \in f["-project"].alts) => page = <<>>

\* Two fields, one of them negated: two clauses, the dash kept, and the
\* originals that are not of the negated project are returned.
C21_Witness ==
    /\ DOMAIN search.Fields = {"replica", "-project"}
    /\ queries # <<>> /\ queries[1].ok
    /\ queries[1].q = {<<"replica", Lit("false")>>, <<"-project", Lit("CMIP5")>>}
    /\ bulk = PageTotal /\ queries[1].skip = 0 /\ queries[1].limit = limit
    /\ Len(page) = PageTotal

\* The positions of the well-formed pairs of a value/count list: a value
\* immediately followed by a count.
WellFormedPairs(raw) == {i \in 1..(Len(raw) - 1) : raw[i].str /\ ~raw[i + 1].str}

\* The mapping holding exactly the well-formed pairs (the last one of a
\* value that occurs in several).
PairsOnly(raw) ==
    LET wf == WellFormedPairs(raw) IN
    [k \in {raw[i].s : i \in wf} |->
        LET last == CHOOSE i \in wf :
                        raw[i].s = k /\ \A j \in wf : raw[j].s = k => j <= i
        IN raw[last + 1].n]

\* C22: the mapping Facet returns holds exactly the well-formed (value,
\* count) pairs of the list: a trailing value, a count without a preceding
\* value, the first of two consecutive values and the second of two
\* consecutive counts add no entry and change no other entry.
C22_OnlyWellFormedPairs ==
    (queries # <<>> /\ queries[Len(queries)].kind = "facet"
        /\ queries[Len(queries)].ok) => facetMap = PairsOnly(facetRaw)

\* What the caller of the last index call holds once it has returned.
Answer ==
    IF queries[Len(queries)].kind = "facet"
    THEN [entries |-> facetMap]
    ELSE [docs |-> page, remaining |-> remaining]

\* What the caller holds after the same call has succeeded against an index
\* in which nothing matches.
EmptyAnswer ==
    LET q == queries[Len(queries)] IN
    IF q.kind = "facet"
    THEN [entries |-> FacetOf(<<>>, TRUE)]
    ELSE LET r == SearchURLs(<<>>, search.Fields, q.skip, q.limit, TRUE)
         IN [docs |-> r.docs, remaining |-> r.remaining]

\* C23: a SearchURLs or Facet call whose request fails (transport failure or
\* a status other than 200) produces no documents and no entries, and the
\* failure reaches the caller: what is returned is not what a successful
\* call with nothing to report returns.
C23_FailureReachesCaller ==
    (queries # <<>> /\ ~queries[Len(queries)].ok) =>
        /\ page = <<>> /\ facetMap = EmptyMap
        /\ Answer # EmptyAnswer

\* Nothing has been done for any file: no worker goroutine, no job, no GET.
NothingStarted ==
    /\ ~started
    /\ \A w \in Workers : wpc[w] = "off"
    /\ sent = EmptyMap
    /\ gets = EmptyMap

\* How many records of the index are originals.
OriginalRecords ==
    LET idx == Index IN Cardinality({i \in 1..Len(idx) : idx[i].replica = "false"})

\* The only index request so far is the count-only query over the originals.
OnlyCountQuery ==
    /\ Len(queries) = 1
    /\ queries[1].kind = "search" /\ queries[1].skip = 0 /\ queries[1].limit = 0
    /\ ClausesOn(queries[1].q, "replica") = {<<"replica", Lit("false")>>}

C26_ZeroCountEndsTheRun ==
    (pc # "start" /\ n = 0) =>
        /\ pc = "done"
        /\ OnlyCountQuery
        /\ NothingStarted

\* An index that holds replicas only, searched with a priority list naming
\* their node and without -count: the answered count query reports zero.
C26_Witness ==
    /\ ~args.count /\ pc = "done" /\ n = 0
    /\ queries[1].ok
    /\ Len(index) > 0 /\ Originals = {}
    /\ \E i \in 1..Len(index) : index[i].DataNode \in Listed

\* The run only reports: -urls.only or -no.download.
DryRun == args.urlsOnly \/ args.noDownload

\* C25: in a dry run the resolution is the full one (with every index
\* request answered, the instance_ids enqueued are those of the requested
\* originals) and every enqueued job is received and run through by a
\* worker, but no GET for file data is issued, no worker gets as far as
\* creating a file, and no step changes the output directory.
C25_DryRunTouchesNothing ==
    /\ [](DryRun =>
            /\ gets = EmptyMap
            /\ \A w \in Workers : wpc[w] \in {"off", "recv", "got", "exit"}
            /\ (started /\ pc = "done") =>
                  /\ \A w \in Workers : wpc[w] \in {"off", "exit"}
                  /\ ~SomeQueryFailed => IdsOf(SentDocs) = IdsOf(Originals))
    /\ [][DryRun => fsVars' = fsVars]_vars

\* -urls.only over one file whose final and partial paths both exist: the
\* job was sent and run through, and both files are as they were.
C25_Witness ==
    /\ args.urlsOnly /\ pc = "done" /\ started
    /\ sent # EmptyMap
    /\ DOMAIN finalF = {1} /\ DOMAIN partF = {1}
    /\ gets = EmptyMap

\* The positions of the facet requests among the index requests.
FacetCalls == {i \in 1..Len(queries) : queries[i].kind = "facet"}

\* The data nodes that hold a replica record of the index.
ReplicaHolders ==
    {index[i].DataNode : i \in {j \in 1..Len(index) : index[j].replica = "true"}}

\* C27: in a run that has got past the count, the replica preference is
\* active exactly when the priority list is not empty and a data node the
\* data_node facet of the replica=true query returned is in the list; one
\* facet request has been issued when the list is not empty, none when it
\* is empty, and never more than one.
C27_PreferenceActiveIffFacetMeetsList ==
    /\ Cardinality(FacetCalls) <= 1
    /\ (pc = "spawn" \/ started) =>
          /\ Cardinality(FacetCalls) = IF conf.data_node_priority # <<>> THEN 1 ELSE 0
          /\ softDataNode <=> /\ conf.data_node_priority # <<>>
                               /\ DOMAIN facetMap \cap SeqToSet(conf.data_node_priority) # {}
          /\ \A i \in FacetCalls :
                /\ ClausesOn(queries[i].q, "replica") = {<<"replica", Lit("true")>>}
                /\ queries[i].ok => DOMAIN facetMap = ReplicaHolders

\* A priority list that names a node, replicas on another node only: the
\* one facet request is answered with that node and the preference is off.
C27_Witness ==
    /\ started /\ ~softDataNode
    /\ conf.data_node_priority # <<>>
    /\ Cardinality(FacetCalls) = 1
    /\ facetMap # EmptyMap
    /\ DOMAIN facetMap \cap SeqToSet(conf.data_node_priority) = {}

\* The mapping instance_id -> (data_node -> Doc) the two passes build over
\* the whole index: every original, then every replica on a listed node.
TwoPassDocs ==
    LET idx == Index
        flds == [search.Fields EXCEPT !["replica"] = Lit("false")]
        origs == SearchURLs(idx, flds, 0, Len(idx), TRUE).docs
        rflds == [search.Fields EXCEPT !["replica"] = Lit("true"),
                                       !["data_node"] = JoinOr(Listed)]
        repls == SearchURLs(idx, rflds, 0, Len(idx), TRUE).docs
    IN AddReplicas(repls, InsertOriginals(origs, EmptyMap))

\* The Docs the selection loop may send for one LogicalFile.
Selectable(dataNodeMap) ==
    LET p == FindPreferred(search.DataNodePriority, dataNodeMap) IN
    IF p.found THEN {p.doc} ELSE {dataNodeMap[dn] : dn \in DOMAIN dataNodeMap}

\* C28: with a priority list, every index request answered and no listed
\* node among the nodes of the facet, so that the preference was turned off,
\* the Docs the single pass has enqueued when the channel is closed are the
\* Docs the two passes and the selection would enqueue over the same index
\* and list: one Doc per LogicalFile, one the selection may choose.
C28_SinglePassEqualsTwoPass ==
    ( /\ conf.data_node_priority # <<>> /\ ~softDataNode
      /\ started /\ pc \in {"wait", "done"}
      /\ ~SomeQueryFailed ) =>
        LET m == TwoPassDocs IN
        /\ IdsOf(SentDocs) = DOMAIN m
        /\ \A id \in DOMAIN m : \E d \in Selectable(m[id]) : SentOf(id) = {d}

\* The producer has not finished the originals pass and the replica pass.
PassesUnfinished ==
    pc \in {"start", "facet", "spawn", "orig_query", "orig_send", "repl_query"}

\* C29: with the preference active nothing is enqueued before the originals
\* pass and the replica pass are both over; with the preference inactive
\* every Doc of a page of originals has been enqueued by the time the next
\* page is asked for.
C29_EnqueueAfterPassesOrPerPage ==
    /\ (softDataNode /\ PassesUnfinished) => sent = EmptyMap
    /\ (~softDataNode /\ pc = "orig_query") => origDocs \subseteq SentDocs

\* Preference inactive, the first page of limit originals returned and sent,
\* the second page not yet asked for: a worker is downloading the last Doc
\* it received and GETs have been issued.
C29_Witness ==
    /\ ~softDataNode /\ pc = "orig_query" /\ cur = limit
    /\ Cardinality(origDocs) = limit
    /\ \E w \in Workers : wpc[w] = "fetch"
    /\ gets # EmptyMap

\* C30: the replica pass creates no LogicalFile.  With the preference
\* active the keys of allDocs are at every moment the instance_ids the
\* originals pass returned, each entry is a Doc of that instance_id on that
\* node, a replica Doc of an instance_id the originals pass did not return
\* is in no mapping, and once the replica pass is over every replica Doc
\* of a known instance_id is in its mapping.
C30_ReplicaPassAddsNoLogicalFile ==
    /\ ~softDataNode => allDocs = EmptyMap
    /\ softDataNode =>
          /\ DOMAIN allDocs = IdsOf(origDocs)
          /\ \A id \in DOMAIN allDocs : \A nd \in DOMAIN allDocs[id] :
                /\ allDocs[id][nd] \in origDocs \cup replDocs
                /\ allDocs[id][nd].InstanceID = id
                /\ allDocs[id][nd].DataNode = nd
          /\ Selecting =>
                \A d \in replDocs :
                    d.InstanceID \in DOMAIN allDocs =>
                        /\ d.DataNode \in DOMAIN allDocs[d.InstanceID]
                        /\ allDocs[d.InstanceID][d.DataNode] = d

\* The replica pass returned a replica of a known instance_id, which is in
\* the mapping of that LogicalFile, and a replica of an unknown one, which
\* was discarded.
C30_Witness ==
    /\ Selecting
    /\ \E d \in replDocs : d.InstanceID \notin DOMAIN allDocs
    /\ \E d \in replDocs :
          /\ d.InstanceID \in DOMAIN allDocs
          /\ allDocs[d.InstanceID][d.DataNode] = d

\* The run resolves: a hard or a soft data node requirement is in force.
V1Resolving == hardDataNode \/ softDataNode

\* The instance_ids of the originals of which the index holds a copy on a
\* node the config file allows.
V1LogicalFiles ==
    LET idx == Index
        wanted == {i \in 1..Len(idx) :
                     hardDataNode => idx[i].DataNode \in dataNodeReqs.alts}
    IN {idx[i].InstanceID : i \in wanted}
          \cap {idx[i].InstanceID : i \in {j \in 1..Len(idx) : idx[j].replica = "false"}}

\* C31: once the two passes of a resolving run are over, the count reported
\* is the number of LogicalFiles (with every request answered, the
\* originals that have a copy on an allowed node), and if it is above the
\* threshold of 100 and -y was not given, nothing is enqueued although the
\* resolution was done.
C31_CountAfterResolution ==
    (started /\ V1Resolving /\ pc \in {"select", "close", "wait", "done"}) =>
        /\ n = Cardinality(DOMAIN allDocs)
        /\ ~SomeQueryFailed => DOMAIN allDocs = V1LogicalFiles
        /\ (n > warnCount /\ ~args.confirm) => sent = EmptyMap

\* A hard requirement on the node that holds 101 originals, no -y: both
\* passes were paged through, 101 is reported and nothing is enqueued.
C31_Witness ==
    /\ hardDataNode /\ started /\ pc = "done" /\ warned
    /\ Len(queries) = 3
    /\ n = warnCount + 1
    /\ Cardinality(DOMAIN allDocs) = warnCount + 1
    /\ sent = EmptyMap

\* C36: a return of getBySearch taken after the worker goroutines were
\* started comes after close(docChan) and waiter.Wait(): the channel is
\* closed and every started worker has left its loop.
C36_ReturnClosesAndWaits ==
    (pc = "done" /\ started) =>
        /\ closed
        /\ \A w \in Workers : wpc[w] \in {"off", "exit"}

\* The query has exactly this clause on the field.
Carries(q, k, v) == ClausesOn(q, k) = {<<k, v>>}

\* C32: each index request carries the replica and data_node values of its
\* stage.  The count query and every page of originals: replica=false and
\* data_node=*.  The facet: replica=true and data_node=*.  Every page of
\* replicas: replica=true and data_node the OR of exactly the listed nodes
\* the facet returned, of which there is at least one.
C32_ReservedFieldProtocol ==
    [][Len(queries') = Len(queries) + 1 =>
         LET q == queries'[Len(queries')].q IN
         /\ pc \in {"start", "facet", "orig_query", "repl_query"}
         /\ pc \in {"start", "orig_query"} =>
               Carries(q, "replica", Lit("false")) /\ Carries(q, "data_node", Star)
         /\ pc = "facet" =>
               Carries(q, "replica", Lit("true")) /\ Carries(q, "data_node", Star)
         /\ pc = "repl_query" =>
               /\ Carries(q, "replica", Lit("true"))
               /\ Carries(q, "data_node", JoinOr(DOMAIN facetMap \cap Listed))
               /\ DOMAIN facetMap \cap Listed # {}]_vars

\* A config file that gives replica and data_node values of its own, and a
\* run through all four stages: the replica page asked for the one listed
\* node of the facet.
C32_Witness ==
    /\ {"replica", "data_node"} \subseteq DOMAIN conf.fields
    /\ Len(queries) = 4
    /\ Carries(queries[3].q, "replica", Lit("false"))
    /\ Carries(queries[4].q, "replica", Lit("true"))
    /\ Carries(queries[4].q, "data_node", JoinOr({NodeNames[MaxNodes]}))

\* The Doc has a verifiable checksum: exactly one checksum value, exactly one
\* checksum type, and the type is a supported one.
Verifiable(d) ==
    Len(d.Sum) = 1 /\ Len(d.SumType) = 1 /\ d.SumType[1] \in {"MD5", "SHA256"}

\* C33: a worker that ends a successful fetch of a Doc without a verifiable
\* checksum goes for the rename to the final path exactly when verification
\* is disabled; with verification enabled nothing in the directory changes,
\* so the file stays at the partial path and no final path is created.
C33_UnverifiableRenamedIffNoVerify ==
    [][\A w \in Workers :
        (wpc[w] = "finish" /\ wpc'[w] = "recv" /\ ~Verifiable(wdoc[w])) =>
            /\ (wjob'[w].renamed \/ wjob'[w].renameErr) <=> args.noVerify
            /\ ~args.noVerify => fsVars' = fsVars]_vars

\* The step ends the job of worker w without a rename and without the skip
\* of a verified file: the partial file could not be created, the GET
\* failed or came short, the checksum did not match or could not be
\* computed, or the rename failed.
EndsInError(w) ==
    /\ Downloading
    /\ wpc[w] \in {"got", "fetch", "finish"} /\ wpc'[w] = "recv"
    /\ ~wjob'[w].renamed /\ ~wjob'[w].skipped

\* C34: when a job ends in an error, the final path of its file is as the
\* job found it: absent if it was absent, and with the same bytes if it was
\* there.
C34_FailedJobKeepsFinalPath ==
    [][\A w \in Workers :
        EndsInError(w) =>
            LET id == wdoc[w].InstanceID IN
            /\ (id \in DOMAIN finalF') <=> wjob'[w].finalSeen
            /\ wjob'[w].finalSeen => data'[finalF'[id]] = wjob'[w].finalBytes]_vars

\* C35: with the preference active, every replica entry of a mapping is on
\* a listed node; a mapping without a listed node has one entry, an
\* original, and that is the Doc enqueued for it; and for every mapping the
\* selection has one possible outcome, whatever the order of iteration.
C35_FallbackIsTheOriginal ==
    softDataNode =>
        \A id \in DOMAIN allDocs :
            LET m == allDocs[id] IN
            /\ \A nd \in DOMAIN m : m[nd].replica = "true" => nd \in Listed
            /\ DOMAIN m \cap Listed = {} =>
                  /\ Cardinality(DOMAIN m) = 1
                  /\ \A nd \in DOMAIN m : m[nd].replica = "false"
            /\ Selecting => Cardinality(Selectable(m)) = 1
            /\ id \in Selected => SentOf(id) = Selectable(m)

\* Two LogicalFiles, one with a replica on a listed node and one whose only
\* copy is the original on an unlisted node: the original was enqueued for
\* the second.
C35_Witness ==
    /\ Selecting /\ pc = "done"
    /\ \E id \in DOMAIN allDocs : Cardinality(DOMAIN allDocs[id]) = 2
    /\ \E id \in DOMAIN allDocs :
          /\ DOMAIN allDocs[id] \cap Listed = {}
          /\ \E d \in SentOf(id) : d.replica = "false"

\* The producer stands at a send on the job channel with a Doc in hand.
AtSend == pc = "orig_send" \/ (pc = "select" /\ toSelect # {})

\* C37: with args.parallel <= 0 no worker is started and nothing is ever
\* received from the channel; once the producer stands at its first send no
\* further step is taken, and a run that resolved a Doc never reaches the
\* close, the wait or the return.
C37_NoWorkerBlocksProducer ==
    /\ [](args.parallel <= 0 =>
            /\ \A w \in Workers : wpc[w] = "off"
            /\ sent = EmptyMap /\ gets = EmptyMap
            /\ pc \in {"close", "wait", "done"} =>
                  (origDocs = {} /\ DOMAIN allDocs = {}))
    /\ [][~(args.parallel <= 0 /\ AtSend)]_vars

\* No worker is running and the producer holds the first Doc of a page.
C37_Witness ==
    /\ args.parallel <= 0 /\ started
    /\ pc = "orig_send" /\ pidx = 1 /\ Len(page) >= 1
    /\ sent = EmptyMap

\* The resolver is inside one of its two paging loops.
InPagingLoop == pc \in {"orig_query", "orig_send", "repl_query"}

\* A step that asks the index for one page of a paging loop.
PageStep ==
    /\ pc \in {"orig_query", "repl_query"}
    /\ Len(queries') = Len(queries) + 1

GetFails(w) == wpc[w] = "fetch" /\ wjob'[w].got /\ ~wjob'[w].getOk

\* C39: a worker whose Get returns an error, a size mismatch included,
\* goes back to the channel in the same step without renaming: the partial
\* and final paths are as they were, and a worker that renamed had a Get
\* that succeeded, whether or not verification is enabled.
C39_SizeMismatchIsNeverRenamed ==
    /\ [](\A w \in Workers : wjob[w].renamed => wjob[w].getOk)
    /\ [][\A w \in Workers :
            GetFails(w) =>
                /\ wpc'[w] = "recv"
                /\ ~wjob'[w].renamed
                /\ partF' = partF /\ finalF' = finalF]_vars

\* With verification disabled a body of the wrong size was received: the
\* run is over, the truncated bytes are at the partial path and nothing is
\* at the final path.
C39_Witness ==
    /\ args.noVerify /\ Downloading /\ pc = "done"
    /\ \E w \in Workers : wjob[w].got /\ ~wjob[w].getOk
    /\ \E id \in DOMAIN partF :
          /\ data[partF[id]] \in {Prefix(b) : b \in 1..NumContents}
          /\ id \notin DOMAIN finalF

====
